---- MODULE Spec2Model ----
(***************************************************************************)
(* Conversational tool-calling orchestrator of Evolution Todo:             *)
(*   run_agent (agent.py), the argument validators (tool_validation.py),   *)
(*   the tool dispatcher call_tool (mcp_server.py), the chat endpoint      *)
(*   (routes/chat.py) and the conversation store (chatkit_store.py).       *)
(*                                                                         *)
(* Python values are tagged records, text is a sequence of code points.    *)
(***************************************************************************)
EXTENDS Integers, Sequences, FiniteSets, TLC

-----------------------------------------------------------------------------
(* Python values *)

PyNone == [k |-> "none"]
PyStr(cps) == [k |-> "str", s |-> cps]
PyInt(i) == [k |-> "int", n |-> i]
PyList(l) == [k |-> "list", items |-> l]
PyBool(b) == [k |-> "bool", b |-> b]

IsNone(v) == v.k = "none"
IsStr(v) == v.k = "str"
IsList(v) == v.k = "list"

\* bool(v)
Truthy(v) ==
    CASE v.k = "none" -> FALSE
      [] v.k = "str" -> v.s # <<>>
      [] v.k = "int" -> v.n # 0
      [] v.k = "list" -> v.items # <<>>
      [] v.k = "bool" -> v.b
      [] OTHER -> TRUE

NoKeys == <<>>

\* d[key] = v
DictSet(d, key, v) == (key :> v) @@ d

\* del d[key]
DictDel(d, key) == [x \in (DOMAIN d) \ {key} |-> d[x]]

\* d.get(key): None when the key is absent
DictGet(d, key) == IF key \in DOMAIN d THEN d[key] ELSE PyNone

-----------------------------------------------------------------------------
(* Text: sequences of code points *)

Whitespace ==
    {9, 10, 11, 12, 13, 28, 29, 30, 31, 32, 133, 160, 5760, 8232, 8233, 8239, 8287, 12288}
    \cup (8192..8202)

RECURSIVE LStrip(_)
LStrip(s) == IF s # <<>> /\ Head(s) \in Whitespace THEN LStrip(Tail(s)) ELSE s

RECURSIVE RStrip(_)
RStrip(s) ==
    IF s # <<>> /\ s[Len(s)] \in Whitespace
    THEN RStrip(SubSeq(s, 1, Len(s) - 1))
    ELSE s

\* str.strip()
Strip(s) == RStrip(LStrip(s))

LowerCp(c) == IF c \in 65..90 THEN c + 32 ELSE c
UpperCp(c) == IF c \in 97..122 THEN c - 32 ELSE c

\* str.lower()
Lower(s) == [i \in 1..Len(s) |-> LowerCp(s[i])]

\* str.capitalize()
Capitalize(s) == [i \in 1..Len(s) |-> IF i = 1 THEN UpperCp(s[i]) ELSE LowerCp(s[i])]

StartsWith(s, p) == Len(p) <= Len(s) /\ SubSeq(s, 1, Len(p)) = p

\* str.replace(p, ""), p non-empty
RECURSIVE RemoveAll(_, _)
RemoveAll(s, p) ==
    IF s = <<>> THEN <<>>
    ELSE IF StartsWith(s, p) THEN RemoveAll(SubSeq(s, Len(p) + 1, Len(s)), p)
    ELSE <<Head(s)>> \o RemoveAll(Tail(s), p)

\* "x" in s
Contains(s, c) == \E i \in 1..Len(s) : s[i] = c

kw_add == <<97, 100, 100>>
kw_create == <<99, 114, 101, 97, 116, 101>>
kw_new == <<110, 101, 119>>
kw_task == <<116, 97, 115, 107>>
kw_remind_me_to == <<114, 101, 109, 105, 110, 100, 32, 109, 101, 32, 116, 111>>
kw_remember_to == <<114, 101, 109, 101, 109, 98, 101, 114, 32, 116, 111>>

remove_keywords == <<kw_add, kw_create, kw_new, kw_task, kw_remind_me_to, kw_remember_to>>

RECURSIVE RemoveKeywords(_, _)
RemoveKeywords(s, i) ==
    IF i > Len(remove_keywords) THEN s
    ELSE RemoveKeywords(RemoveAll(s, remove_keywords[i]), i + 1)

\* "Task: " and "Task to be completed"
TaskPrefix == <<84, 97, 115, 107, 58, 32>>
\* the fallback is the empty string
GenericDescriptionEmpty == <<>>

GenericDescription ==
    <<84, 97, 115, 107, 32, 116, 111, 32, 98, 101, 32, 99, 111, 109, 112, 108, 101, 116, 101, 100>>

-----------------------------------------------------------------------------
(* Results of Python calls: a returned value or a raised exception *)

Ret(v) == [ret |-> v]
Raise(e) == [exc |-> e]
Raised(r) == "exc" \in DOMAIN r

-----------------------------------------------------------------------------
(* tool_validation.py *)

VALID_PRIORITIES == {"low", "medium", "high", "none"}
\* a fourth pattern is accepted
VALID_RECURRENCE_AND_YEARLY == {"daily", "weekly", "monthly", "yearly"}

VALID_RECURRENCE == {"daily", "weekly", "monthly"}

\* The enumeration words, spelled in code points
Word(w) ==
    CASE w = "low" -> <<108, 111, 119>>
      [] w = "medium" -> <<109, 101, 100, 105, 117, 109>>
      [] w = "high" -> <<104, 105, 103, 104>>
      [] w = "none" -> <<110, 111, 110, 101>>
      [] w = "null" -> <<110, 117, 108, 108>>
      [] w = "daily" -> <<100, 97, 105, 108, 121>>
      [] w = "weekly" -> <<119, 101, 101, 107, 108, 121>>
      [] w = "monthly" -> <<109, 111, 110, 116, 104, 108, 121>>
      [] w = "yearly" -> <<121, 101, 97, 114, 108, 121>>
      [] OTHER -> <<>>

\* v in [words...]
InWords(v, ws) == IsStr(v) /\ \E w \in ws : v.s = Word(w)

IsDigit(c) == c \in 48..57
Num2(s, i) == (s[i] - 48) * 10 + (s[i + 1] - 48)
Num4(s, i) == Num2(s, i) * 100 + Num2(s, i + 2)

DaysIn(y, m) ==
    IF m \in {4, 6, 9, 11} THEN 30
    ELSE IF m = 2
         THEN (IF (y % 4 = 0 /\ y % 100 # 0) \/ y % 400 = 0 THEN 29 ELSE 28)
         ELSE 31

\* YYYY-MM-DD
IsIsoDate(s) ==
    /\ Len(s) = 10
    /\ \A i \in {1, 2, 3, 4, 6, 7, 9, 10} : IsDigit(s[i])
    /\ s[5] = 45 /\ s[8] = 45
    /\ Num4(s, 1) >= 1
    /\ Num2(s, 6) \in 1..12
    /\ Num2(s, 9) >= 1 /\ Num2(s, 9) <= DaysIn(Num4(s, 1), Num2(s, 6))

\* HH:MM:SS
IsIsoTime(s) ==
    /\ Len(s) = 8
    /\ \A i \in {1, 2, 4, 5, 7, 8} : IsDigit(s[i])
    /\ s[3] = 58 /\ s[6] = 58
    /\ Num2(s, 1) <= 23 /\ Num2(s, 4) <= 59 /\ Num2(s, 7) <= 59

\* "+00:00"
UtcOffset == <<43, 48, 48, 58, 48, 48>>

\* str.replace("Z", "+00:00")
RECURSIVE ReplaceZ(_)
ReplaceZ(s) ==
    IF s = <<>> THEN <<>>
    ELSE IF Head(s) = 90 THEN UtcOffset \o ReplaceZ(Tail(s))
    ELSE <<Head(s)>> \o ReplaceZ(Tail(s))

\* datetime.fromisoformat(s) succeeds: a date, or a date, a separator and a
\* time with an optional +00:00 offset
FromIsoOk(s) ==
    \/ IsIsoDate(s)
    \/ /\ Len(s) \in {19, 25}
       /\ IsIsoDate(SubSeq(s, 1, 10))
       /\ s[11] \in {84, 32}
       /\ IsIsoTime(SubSeq(s, 12, 19))
       /\ Len(s) = 25 => SubSeq(s, 20, 25) = UtcOffset

\* "T00:00:00"
Midnight == <<84, 48, 48, 58, 48, 48, 58, 48, 48>>

\* datetime.fromisoformat(s).isoformat(), s parsable
IsoFormat(s) ==
    IF Len(s) = 10 THEN s \o Midnight
    ELSE [i \in 1..Len(s) |-> IF i = 11 THEN 84 ELSE s[i]]

_validate_iso_date(date_value) ==
    IF ~Truthy(date_value) \/ InWords(date_value, {"null", "none"})
    THEN PyNone
    ELSE IF IsStr(date_value)
         THEN IF Contains(date_value.s, 84)
              THEN (IF FromIsoOk(ReplaceZ(date_value.s)) THEN date_value ELSE PyNone)
              ELSE (IF FromIsoOk(date_value.s) THEN PyStr(IsoFormat(date_value.s)) ELSE PyNone)
         ELSE date_value

_generate_description(title, user_message) ==
    LET fromMessage ==
            LET clean_msg == Strip(RemoveKeywords(Lower(user_message), 1))
            IN  IF user_message # <<>> /\ Len(Strip(user_message)) > 0 /\ Len(clean_msg) > 0
                THEN Ret(PyStr(Capitalize(clean_msg)))
                ELSE Ret(PyStr(GenericDescription))
    IN  IF Truthy(title)
        THEN IF ~IsStr(title)
             THEN Raise("AttributeError")
             ELSE IF Len(Strip(title.s)) > 0
                  THEN Ret(PyStr(TaskPrefix \o Strip(title.s)))
                  ELSE fromMessage
        ELSE fromMessage

\* [tag for tag in tags if tag and tag.strip()]
RECURSIVE FilterTags(_)
FilterTags(tags) ==
    IF tags = <<>> THEN Ret(<<>>)
    ELSE LET tag == Head(tags)
             rest == FilterTags(Tail(tags))
         IN  IF ~Truthy(tag) THEN rest
             ELSE IF ~IsStr(tag) THEN Raise("AttributeError")
             ELSE IF Raised(rest) THEN rest
             ELSE IF Strip(tag.s) # <<>> THEN Ret(<<tag>> \o rest.ret)
             ELSE rest

\* the tags step shared by both validators
ValidateTags(sanitized) ==
    IF "tags" \notin DOMAIN sanitized THEN Ret(sanitized)
    ELSE LET tags == IF IsList(sanitized["tags"]) THEN sanitized["tags"].items ELSE <<>>
             kept == FilterTags(tags)
         IN  IF Raised(kept) THEN kept
             ELSE Ret(DictSet(sanitized, "tags", PyList(kept.ret)))

\* the due_date step shared by both validators
ValidateDueDate(sanitized) ==
    IF "due_date" \in DOMAIN sanitized /\ Truthy(sanitized["due_date"])
    THEN DictSet(sanitized, "due_date", _validate_iso_date(sanitized["due_date"]))
    ELSE sanitized

StripNulls(d) == [x \in {y \in DOMAIN d : ~IsNone(d[y])} |-> d[x]]

validate_add_task(args, user_message) ==
    LET s0 == args
        desc == IF \/ "description" \notin DOMAIN s0
                   \/ IsNone(s0["description"])
                   \/ s0["description"] = PyStr(<<>>)
                THEN _generate_description(
                         IF "title" \in DOMAIN s0 THEN s0["title"] ELSE PyStr(<<>>),
                         user_message)
                ELSE Ret(s0["description"])
        s1 == DictSet(s0, "description", desc.ret)
        s2 == IF "recurrence_pattern" \in DOMAIN s1
              THEN LET recurrence == s1["recurrence_pattern"]
                   IN  IF \/ IsNone(recurrence)
                          \/ recurrence = PyStr(<<>>)
                          \/ InWords(recurrence, {"none", "null"})
                       THEN DictDel(s1, "recurrence_pattern")
                       ELSE IF ~InWords(recurrence, VALID_RECURRENCE)
                       THEN DictDel(s1, "recurrence_pattern")
                       ELSE s1
              ELSE s1
        s3 == IF "priority" \in DOMAIN s2
              THEN (IF ~InWords(s2["priority"], VALID_PRIORITIES)
                    THEN DictSet(s2, "priority", PyStr(Word("none")))
                    ELSE s2)
              ELSE DictSet(s2, "priority", PyStr(Word("none")))
        s4 == ValidateDueDate(s3)
        s5 == ValidateTags(s4)
    IN  IF Raised(desc) THEN desc
        ELSE IF Raised(s5) THEN s5
        ELSE Ret(StripNulls(s5.ret))

\* "tags" is missing from fields_to_check
update_fields_to_check_no_tags == {"title", "description", "priority", "due_date"}

update_fields_to_check == {"title", "description", "priority", "due_date", "tags"}

validate_update_task(args) ==
    LET s0 == args
        s1 == [x \in {y \in DOMAIN s0 :
                        ~(/\ y \in update_fields_to_check
                          /\ \/ IsNone(s0[y])
                             \/ s0[y] = PyStr(<<>>)
                             \/ s0[y] = PyList(<<>>))} |-> s0[x]]
        s2 == IF "priority" \in DOMAIN s1 /\ ~InWords(s1["priority"], VALID_PRIORITIES)
              THEN DictSet(s1, "priority", PyStr(Word("none")))
              ELSE s1
        s3 == ValidateDueDate(s2)
        s4 == ValidateTags(s3)
    IN  IF "task_id" \notin DOMAIN s0 \/ IsNone(s0["task_id"])
        THEN Raise("task_id is required for update_task")
        ELSE s4

HindiRange == 2304..2431
UrduRange == 1536..1791

\* hindi_pattern.match(text): only the first character is looked at
detect_language_match(text) ==
    IF text # <<>> /\ text[1] \in HindiRange THEN "hindi"
    ELSE IF \E i \in 1..Len(text) : text[i] \in UrduRange THEN "urdu"
    ELSE "english"

detect_language(text) ==
    IF \E i \in 1..Len(text) : text[i] \in HindiRange THEN "hindi"
    ELSE IF \E i \in 1..Len(text) : text[i] \in UrduRange THEN "urdu"
    ELSE "english"

\* "Sorry, Hindi is not supported. Please use English or Urdu."
HindiNotSupported == [k |-> "fixed", id |-> "hindi_not_supported"]

\* <<is_valid, error_message>>
validate_language(user_message) ==
    IF detect_language(user_message) = "hindi"
    THEN <<FALSE, HindiNotSupported>>
    ELSE <<TRUE, PyNone>>

-----------------------------------------------------------------------------
(* intent_classifier.py *)

IntentType ==
    {"ADD_TASK", "UPDATE_TASK", "DELETE_TASK", "LIST_TASKS", "COMPLETE_TASK", "SEARCH",
     "ANALYTICS", "UNCLEAR"}

\* add create new make remind remember schedule set buy call send write book plan
\* organize banao banana yaad dilao karna karwana and five Urdu words
ADD_TASK_KEYWORDS ==
    << <<97, 100, 100>>,
       <<99, 114, 101, 97, 116, 101>>,
       <<110, 101, 119>>,
       <<109, 97, 107, 101>>,
       <<114, 101, 109, 105, 110, 100>>,
       <<114, 101, 109, 101, 109, 98, 101, 114>>,
       <<115, 99, 104, 101, 100, 117, 108, 101>>,
       <<115, 101, 116>>,
       <<98, 117, 121>>,
       <<99, 97, 108, 108>>,
       <<115, 101, 110, 100>>,
       <<119, 114, 105, 116, 101>>,
       <<98, 111, 111, 107>>,
       <<112, 108, 97, 110>>,
       <<111, 114, 103, 97, 110, 105, 122, 101>>,
       <<98, 97, 110, 97, 111>>,
       <<98, 97, 110, 97, 110, 97>>,
       <<121, 97, 97, 100>>,
       <<100, 105, 108, 97, 111>>,
       <<107, 97, 114, 110, 97>>,
       <<107, 97, 114, 119, 97, 110, 97>>,
       <<1576, 1606, 1575, 1606, 1575>>,
       <<1576, 1606, 1575, 1572>>,
       <<1740, 1575, 1583>>,
       <<1583, 1604, 1575, 1606, 1575>>,
       <<1705, 1585, 1606, 1575>> >>

\* update change modify edit move reschedule shift postpone rename alter adjust
\* badlo badalna tabdeel edit and three Urdu words
UPDATE_TASK_KEYWORDS ==
    << <<117, 112, 100, 97, 116, 101>>,
       <<99, 104, 97, 110, 103, 101>>,
       <<109, 111, 100, 105, 102, 121>>,
       <<101, 100, 105, 116>>,
       <<109, 111, 118, 101>>,
       <<114, 101, 115, 99, 104, 101, 100, 117, 108, 101>>,
       <<115, 104, 105, 102, 116>>,
       <<112, 111, 115, 116, 112, 111, 110, 101>>,
       <<114, 101, 110, 97, 109, 101>>,
       <<97, 108, 116, 101, 114>>,
       <<97, 100, 106, 117, 115, 116>>,
       <<98, 97, 100, 108, 111>>,
       <<98, 97, 100, 97, 108, 110, 97>>,
       <<116, 97, 98, 100, 101, 101, 108>>,
       <<101, 100, 105, 116>>,
       <<1576, 1583, 1604, 1606, 1575>>,
       <<1576, 1583, 1604, 1608>>,
       <<1578, 1576, 1583, 1740, 1604>> >>

\* delete remove cancel discard drop clear delete hatao khatam mitao and four
\* Urdu words
DELETE_TASK_KEYWORDS ==
    << <<100, 101, 108, 101, 116, 101>>,
       <<114, 101, 109, 111, 118, 101>>,
       <<99, 97, 110, 99, 101, 108>>,
       <<100, 105, 115, 99, 97, 114, 100>>,
       <<100, 114, 111, 112>>,
       <<99, 108, 101, 97, 114>>,
       <<100, 101, 108, 101, 116, 101>>,
       <<104, 97, 116, 97, 111>>,
       <<107, 104, 97, 116, 97, 109>>,
       <<109, 105, 116, 97, 111>>,
       <<1672, 1740, 1604, 1740, 1657>>,
       <<1729, 1657, 1575, 1572>>,
       <<1582, 1578, 1605>>,
       <<1605, 1657, 1575, 1572>> >>

\* list show display view see get what fetch all dikhao dekho batao sab saray
\* and five Urdu words
LIST_TASK_KEYWORDS ==
    << <<108, 105, 115, 116>>,
       <<115, 104, 111, 119>>,
       <<100, 105, 115, 112, 108, 97, 121>>,
       <<118, 105, 101, 119>>,
       <<115, 101, 101>>,
       <<103, 101, 116>>,
       <<119, 104, 97, 116>>,
       <<102, 101, 116, 99, 104>>,
       <<97, 108, 108>>,
       <<100, 105, 107, 104, 97, 111>>,
       <<100, 101, 107, 104, 111>>,
       <<98, 97, 116, 97, 111>>,
       <<115, 97, 98>>,
       <<115, 97, 114, 97, 121>>,
       <<1583, 1705, 1726, 1575, 1572>>,
       <<1583, 1740, 1705, 1726, 1608>>,
       <<1576, 1578, 1575, 1572>>,
       <<1587, 1576>>,
       <<1587, 1575, 1585, 1746>> >>

\* complete done finish mark tick check mukammal hogaya karliya khatam and four
\* Urdu words
COMPLETE_TASK_KEYWORDS ==
    << <<99, 111, 109, 112, 108, 101, 116, 101>>,
       <<100, 111, 110, 101>>,
       <<102, 105, 110, 105, 115, 104>>,
       <<109, 97, 114, 107>>,
       <<116, 105, 99, 107>>,
       <<99, 104, 101, 99, 107>>,
       <<109, 117, 107, 97, 109, 109, 97, 108>>,
       <<104, 111, 103, 97, 121, 97>>,
       <<107, 97, 114, 108, 105, 121, 97>>,
       <<107, 104, 97, 116, 97, 109>>,
       <<1605, 1705, 1605, 1604>>,
       <<1729, 1608, 1711, 1740, 1575>>,
       <<1705, 1585, 1604, 1740, 1575>>,
       <<1582, 1578, 1605>> >>

\* search find look where dhundo khojo talash and three Urdu words
SEARCH_KEYWORDS ==
    << <<115, 101, 97, 114, 99, 104>>,
       <<102, 105, 110, 100>>,
       <<108, 111, 111, 107>>,
       <<119, 104, 101, 114, 101>>,
       <<100, 104, 117, 110, 100, 111>>,
       <<107, 104, 111, 106, 111>>,
       <<116, 97, 108, 97, 115, 104>>,
       <<1672, 1726, 1608, 1606, 1672, 1608>>,
       <<1705, 1726, 1608, 1580, 1608>>,
       <<1578, 1604, 1575, 1588>> >>

\* update change modify edit move reschedule
ExplicitUpdate ==
    << <<117, 112, 100, 97, 116, 101>>,
       <<99, 104, 97, 110, 103, 101>>,
       <<109, 111, 100, 105, 102, 121>>,
       <<101, 100, 105, 116>>,
       <<109, 111, 118, 101>>,
       <<114, 101, 115, 99, 104, 101, 100, 117, 108, 101>> >>

\* stats statistics summary analytics "how many" count
AnalyticsKeywords ==
    << <<115, 116, 97, 116, 115>>,
       <<115, 116, 97, 116, 105, 115, 116, 105, 99, 115>>,
       <<115, 117, 109, 109, 97, 114, 121>>,
       <<97, 110, 97, 108, 121, 116, 105, 99, 115>>,
       <<104, 111, 119, 32, 109, 97, 110, 121>>,
       <<99, 111, 117, 110, 116>> >>

\* buy call send email write book pay clean fix
action_verbs ==
    << <<98, 117, 121>>,
       <<99, 97, 108, 108>>,
       <<115, 101, 110, 100>>,
       <<101, 109, 97, 105, 108>>,
       <<119, 114, 105, 116, 101>>,
       <<98, 111, 111, 107>>,
       <<112, 97, 121>>,
       <<99, 108, 101, 97, 110>>,
       <<102, 105, 120>> >>

\* show list what display
ListingWords ==
    << <<115, 104, 111, 119>>,
       <<108, 105, 115, 116>>,
       <<119, 104, 97, 116>>,
       <<100, 105, 115, 112, 108, 97, 121>> >>

\* "add task" "create task" "new task" "remind me"
CanonicalAdd ==
    << <<97, 100, 100, 32, 116, 97, 115, 107>>,
       <<99, 114, 101, 97, 116, 101, 32, 116, 97, 115, 107>>,
       <<110, 101, 119, 32, 116, 97, 115, 107>>,
       <<114, 101, 109, 105, 110, 100, 32, 109, 101>> >>

\* update change modify
CanonicalUpdate ==
    << <<117, 112, 100, 97, 116, 101>>,
       <<99, 104, 97, 110, 103, 101>>,
       <<109, 111, 100, 105, 102, 121>> >>

\* delete remove
CanonicalDelete ==
    << <<100, 101, 108, 101, 116, 101>>,
       <<114, 101, 109, 111, 118, 101>> >>

\* "show all" "list all" "show my"
CanonicalList ==
    << <<115, 104, 111, 119, 32, 97, 108, 108>>,
       <<108, 105, 115, 116, 32, 97, 108, 108>>,
       <<115, 104, 111, 119, 32, 109, 121>> >>

\* keyword in text
Substr(text, keyword) ==
    \E i \in 1..(Len(text) - Len(keyword) + 1) :
        SubSeq(text, i, i + Len(keyword) - 1) = keyword

\* keywords[:n]
FirstN(keywords, n) == SubSeq(keywords, 1, IF Len(keywords) < n THEN Len(keywords) ELSE n)

_contains_keywords(text, keywords) ==
    \E k \in 1..Len(keywords) : Substr(text, keywords[k])

\* \d of a str pattern: the decimal digits of the Latin, Arabic, N'Ko and
\* Devanagari blocks
ReDigit(c) ==
    c \in (48..57) \cup (1632..1641) \cup (1776..1785) \cup (1984..1993) \cup (2406..2415)

\* the literal lit stands at position i of text
MatchAt(text, i, lit) ==
    /\ i + Len(lit) - 1 <= Len(text)
    /\ SubSeq(text, i, i + Len(lit) - 1) = lit

DigitAt(text, j) == j <= Len(text) /\ ReDigit(text[j])

\* the positions after a run of one or more characters of chars that starts at i
AfterRun(text, i, chars) ==
    {j \in (i + 1)..(Len(text) + 1) : \A k \in i..(j - 1) : text[k] \in chars}

\* re.search of task\s+#?\d+, task\s+id\s+\d+, id[:\s]+\d+ and #\d+
_has_task_id(text) ==
    \/ \E i \in 1..Len(text) :
            /\ MatchAt(text, i, kw_task)
            /\ \E j \in AfterRun(text, i + 4, Whitespace) :
                    \/ DigitAt(text, j)
                    \/ MatchAt(text, j, <<35>>) /\ DigitAt(text, j + 1)
    \/ \E i \in 1..Len(text) :
            /\ MatchAt(text, i, kw_task)
            /\ \E j \in AfterRun(text, i + 4, Whitespace) :
                    /\ MatchAt(text, j, <<105, 100>>)
                    /\ \E k \in AfterRun(text, j + 2, Whitespace) : DigitAt(text, k)
    \/ \E i \in 1..Len(text) :
            /\ MatchAt(text, i, <<105, 100>>)
            /\ \E j \in AfterRun(text, i + 2, Whitespace \cup {58}) : DigitAt(text, j)
    \/ \E i \in 1..Len(text) : MatchAt(text, i, <<35>>) /\ DigitAt(text, i + 1)

classify(user_message, conversation_history) ==
    LET message_lower == Strip(Lower(user_message))
    IN  IF /\ _contains_keywords(message_lower, ADD_TASK_KEYWORDS)
           /\ ~_contains_keywords(message_lower, ExplicitUpdate)
        THEN "ADD_TASK"
        ELSE IF /\ _contains_keywords(message_lower, UPDATE_TASK_KEYWORDS)
                /\ \/ _has_task_id(message_lower)
                   \/ _contains_keywords(message_lower, ExplicitUpdate)
        THEN "UPDATE_TASK"
        ELSE IF _contains_keywords(message_lower, COMPLETE_TASK_KEYWORDS) THEN "COMPLETE_TASK"
        ELSE IF _contains_keywords(message_lower, DELETE_TASK_KEYWORDS) THEN "DELETE_TASK"
        ELSE IF _contains_keywords(message_lower, SEARCH_KEYWORDS) THEN "SEARCH"
        ELSE IF _contains_keywords(message_lower, LIST_TASK_KEYWORDS) THEN "LIST_TASKS"
        ELSE IF _contains_keywords(message_lower, AnalyticsKeywords) THEN "ANALYTICS"
        ELSE IF /\ _contains_keywords(message_lower, action_verbs)
                /\ ~_contains_keywords(message_lower, ListingWords)
        THEN "ADD_TASK"
        ELSE "UNCLEAR"

\* the score in hundredths
get_confidence_score(user_message, intent) ==
    LET message_lower == Lower(user_message)
    IN  IF intent = "ADD_TASK"
        THEN IF _contains_keywords(message_lower, CanonicalAdd) THEN 95
             ELSE IF _contains_keywords(message_lower, FirstN(ADD_TASK_KEYWORDS, 10)) THEN 85
             ELSE 70
        ELSE IF intent = "UPDATE_TASK"
        THEN IF /\ _has_task_id(message_lower)
                /\ _contains_keywords(message_lower, CanonicalUpdate)
             THEN 95
             ELSE IF _contains_keywords(message_lower, FirstN(UPDATE_TASK_KEYWORDS, 5)) THEN 85
             ELSE 70
        ELSE IF intent = "DELETE_TASK"
        THEN IF /\ _has_task_id(message_lower)
                /\ _contains_keywords(message_lower, CanonicalDelete)
             THEN 95
             ELSE 80
        ELSE IF intent = "LIST_TASKS"
        THEN IF _contains_keywords(message_lower, CanonicalList) THEN 90 ELSE 75
        ELSE 60

classify_intent(user_message, conversation_history) ==
    classify(user_message, conversation_history)

-----------------------------------------------------------------------------
(* The database: conversations, messages, tasks (models.py) *)

VARIABLES
    conversations,  \* id -> [user_id, created_at, updated_at], rows of table conversations
    messages,       \* rows of table messages, in created_at order
    tasks,          \* id -> row of table tasks
    next_id,        \* the autoincrement counters of the three tables
    now,            \* datetime.utcnow()
    turn,           \* per request: the locals of chat() and run_agent()
    store_ret,      \* the last ChatKitStore call and what it returned
    store_ops       \* number of ChatKitStore calls made

vars == <<conversations, messages, tasks, next_id, now, turn, store_ret, store_ops>>
db_vars == <<conversations, messages, tasks, next_id, now>>

\* user ids "u1", "u2"
U1 == <<117, 49>>
U2 == <<117, 50>>
Users == {U1, U2}

\* the requests handled
Workers == {"w1"}

\* bound on the number of direct ChatKitStore calls
MaxStoreOps == 1

ConversationExists(id) == id \in DOMAIN conversations

\* select(Message).where(conversation_id == id).order_by(created_at)
MessagesOf(id) == SelectSeq(messages, LAMBDA m : m.conversation_id = id)

MessageRow(id, conversation_id, user_id, role, content, tool_calls, created_at) ==
    [id |-> id, conversation_id |-> conversation_id, user_id |-> user_id, role |-> role,
     content |-> content, tool_calls |-> tool_calls, created_at |-> created_at]

\* [{"role": msg.role, "content": msg.content} for msg in db_messages]
RoleContent(rows) == [i \in 1..Len(rows) |-> [role |-> rows[i].role, content |-> rows[i].content]]

-----------------------------------------------------------------------------
(* mcp_server.py: call_tool *)

ToolText(id, detail) == [k |-> "tooltext", id |-> id, detail |-> detail]

IsErrorText(t) == t.id \in {"not_found", "api_error", "error", "unknown_tool"}

DbTools == {"add_task", "list_tasks", "complete_task", "update_task", "set_priority", "add_tags"}
HttpTools == {"delete_task", "search_tasks", "schedule_reminder", "get_recurring_tasks",
              "analytics_summary"}
RegistryTools == DbTools \cup HttpTools

\* what the environment does to one call: the database or the REST API
\* answers, the database faults, the API answers with an error status, or the
\* connection fails
EnvOutcomes == {"ok", "db_fault", "http_status", "http_connect"}

\* session.get(Task, task_id) finds a row, whoever owns it
AnyTask(tk, task_id, user_id) ==
    /\ task_id.k = "int"
    /\ task_id.n \in DOMAIN tk

\* session.get(Task, task_id) finds a row owned by user_id
OwnedTask(tk, task_id, user_id) ==
    /\ task_id.k = "int"
    /\ task_id.n \in DOMAIN tk
    /\ PyStr(tk[task_id.n].user_id) = user_id

\* list(set(current_tags + new_tags)), kept in first-occurrence order
RECURSIVE Dedup(_)
Dedup(l) ==
    IF l = <<>> THEN <<>>
    ELSE LET rest == Dedup(SubSeq(l, 1, Len(l) - 1))
         IN  IF \E j \in 1..Len(rest) : rest[j] = l[Len(l)] THEN rest
             ELSE Append(rest, l[Len(l)])

\* returns [text, tasks, next_task, now]
call_tool(name, arguments, env, tk, next_task, clock) ==
    LET user_id == DictGet(arguments, "user_id")
        same(text) == [text |-> text, tasks |-> tk, next_task |-> next_task, now |-> clock]
        error(e) == same(ToolText("error", PyStr(e)))
        has(key) == key \in DOMAIN arguments
        get(key) == DictGet(arguments, key)
        task_id == arguments["task_id"]
        not_found == same(ToolText("not_found", task_id))
        write(id, row) == [x \in (DOMAIN tk) \cup {id} |-> IF x = id THEN row ELSE tk[x]]
        touched(text, row) ==
            [text |-> text,
             tasks |-> write(task_id.n, [row EXCEPT !.updated_at = clock + 1]),
             next_task |-> next_task, now |-> clock + 1]
    IN
    CASE name \in DbTools /\ env = "db_fault" -> error(<<>>)
      [] name \in HttpTools /\ env = "http_status" -> same(ToolText("api_error", PyNone))
      [] name \in HttpTools /\ env = "http_connect" -> error(<<>>)
      [] name = "add_task" ->
            IF ~has("title") \/ IsNone(arguments["title"]) \/ ~IsStr(user_id)
            THEN error(<<>>)
            ELSE LET recurrence == get("recurrence_pattern")
                     recurring == Truthy(recurrence) /\ InWords(recurrence, VALID_RECURRENCE)
                     row == [user_id |-> user_id.s,
                             title |-> arguments["title"],
                             description |-> IF has("description") THEN arguments["description"]
                                             ELSE arguments["title"],
                             completed |-> FALSE,
                             priority |-> IF has("priority") THEN arguments["priority"]
                                          ELSE PyStr(Word("none")),
                             tags |-> IF has("tags") THEN arguments["tags"] ELSE PyList(<<>>),
                             due_date |-> IF Truthy(get("due_date")) THEN arguments["due_date"]
                                          ELSE PyNone,
                             recurrence_pattern |-> IF recurring THEN recurrence ELSE PyNone,
                             is_recurring |-> recurring,
                             updated_at |-> clock + 1]
                 IN  [text |-> ToolText("task_created", PyInt(next_task)),
                      tasks |-> write(next_task, row),
                      next_task |-> next_task + 1, now |-> clock + 1]
      [] name = "list_tasks" ->
            LET found == {id \in DOMAIN tk :
                            /\ PyStr(tk[id].user_id) = user_id
                            /\ get("status") = PyStr(<<112, 101, 110, 100, 105, 110, 103>>)
                                   => ~tk[id].completed
                            /\ get("status") = PyStr(<<99, 111, 109, 112, 108, 101, 116, 101, 100>>)
                                   => tk[id].completed
                            /\ Truthy(get("priority")) => tk[id].priority = get("priority")
                            /\ Truthy(get("search")) =>
                                   /\ IsStr(get("search")) /\ IsStr(tk[id].title)
                                   /\ Substr(tk[id].title.s, get("search").s)}
            IN  IF found = {} THEN same(ToolText("no_tasks", PyNone))
                ELSE same(ToolText("found", found))
      [] name = "complete_task" ->
            IF ~has("task_id") THEN error(<<>>)
            ELSE IF ~OwnedTask(tk, task_id, user_id) THEN not_found
            ELSE touched(ToolText("marked", task_id),
                         [tk[task_id.n] EXCEPT !.completed = ~@])
      [] name = "delete_task" ->
            IF ~has("task_id") THEN error(<<>>)
            ELSE IF ~OwnedTask(tk, task_id, user_id)
            THEN same(ToolText("api_error", PyNone))
            ELSE [text |-> ToolText("deleted", task_id),
                  tasks |-> [x \in (DOMAIN tk) \ {task_id.n} |-> tk[x]],
                  next_task |-> next_task, now |-> clock]
      [] name = "update_task" ->
            IF ~has("task_id") THEN error(<<>>)
            ELSE IF ~OwnedTask(tk, task_id, user_id) THEN not_found
            ELSE LET t0 == tk[task_id.n]
                     t1 == IF Truthy(get("title")) THEN [t0 EXCEPT !.title = get("title")] ELSE t0
                     t2 == IF ~IsNone(get("description"))
                           THEN [t1 EXCEPT !.description = get("description")] ELSE t1
                     t3 == IF Truthy(get("priority"))
                           THEN [t2 EXCEPT !.priority = get("priority")] ELSE t2
                     t4 == IF Truthy(get("due_date"))
                           THEN [t3 EXCEPT !.due_date = get("due_date")] ELSE t3
                     t5 == IF Truthy(get("tags")) THEN [t4 EXCEPT !.tags = get("tags")] ELSE t4
                 IN  touched(ToolText("updated", task_id), t5)
      [] name = "set_priority" ->
            IF ~has("task_id") \/ ~has("priority") THEN error(<<>>)
            ELSE IF ~OwnedTask(tk, task_id, user_id) THEN not_found
            ELSE touched(ToolText("priority_set", task_id),
                         [tk[task_id.n] EXCEPT !.priority = arguments["priority"]])
      [] name = "add_tags" ->
            IF ~has("task_id") \/ ~has("tags") THEN error(<<>>)
            ELSE IF ~OwnedTask(tk, task_id, user_id) THEN not_found
            ELSE IF ~IsList(arguments["tags"]) \/ ~IsList(tk[task_id.n].tags) THEN error(<<>>)
            ELSE touched(ToolText("tags_added", task_id),
                         [tk[task_id.n] EXCEPT
                            !.tags = PyList(Dedup(@.items \o arguments["tags"].items))])
      [] name = "search_tasks" ->
            IF ~has("query") THEN error(<<>>) ELSE same(ToolText("search_result", PyNone))
      [] name = "schedule_reminder" ->
            IF ~has("task_id") \/ ~has("reminder_time") THEN error(<<>>)
            ELSE same(ToolText("reminder_scheduled", PyNone))
      [] name = "get_recurring_tasks" -> same(ToolText("recurring_result", PyNone))
      [] name = "analytics_summary" -> same(ToolText("analytics", PyNone))
      [] OTHER -> same(ToolText("unknown_tool", PyNone))

-----------------------------------------------------------------------------
(* Inputs: utterances and language-model responses *)

\* "add milk"
MsgEnglish == <<97, 100, 100, 32, 109, 105, 108, 107>>
\* "milk" followed by a Devanagari word
MsgHindi == <<109, 105, 108, 107, 32, 2342, 2370, 2343>>
\* an Urdu word
MsgUrdu == <<1583, 1608, 1583, 1726>>
\* an Urdu word followed by a Devanagari word
MsgMixed == <<1583, 1608, 1583, 1726, 32, 2342, 2370, 2343>>
Utterances == {MsgEnglish, MsgHindi, MsgUrdu, MsgMixed}

Milk == PyStr(<<109, 105, 108, 107>>)
ReplyText == PyStr(<<111, 107>>)

ToolCall(name, arguments) == [name |-> name, arguments |-> arguments]

\* the model names another user
AddMilkAsU2 == ToolCall("add_task", Ret(("title" :> Milk) @@ ("user_id" :> PyStr(U2))))
\* a null title: dropped by the validator, then missing in call_tool
AddNoTitle == ToolCall("add_task", Ret(("title" :> PyNone)))
ListAll == ToolCall("list_tasks", Ret(("status" :> PyStr(<<97, 108, 108>>))))
UpdateNoId == ToolCall("update_task", Ret(("title" :> Milk)))
UpdateOne == ToolCall("update_task",
                 Ret(("task_id" :> PyInt(1)) @@ ("title" :> PyStr(<<>>))
                     @@ ("priority" :> PyStr(<<117, 114, 103, 101, 110, 116>>))
                     @@ ("user_id" :> PyStr(U1))))
CompleteOne == ToolCall("complete_task", Ret(("task_id" :> PyInt(1))))
DeleteOne == ToolCall("delete_task", Ret(("task_id" :> PyInt(1))))
Frobnicate == ToolCall("frobnicate", Ret(NoKeys))
BadJson == ToolCall("list_tasks", Raise("JSONDecodeError"))

\* message.tool_calls of the responses the model gives
ModelToolCalls ==
    { <<>>,
      <<AddMilkAsU2>>,
      <<AddMilkAsU2, ListAll>>,
      <<AddNoTitle>>,
      <<UpdateNoId>>,
      <<CompleteOne, UpdateOne>>,
      <<AddMilkAsU2, UpdateNoId>>,
      <<DeleteOne>>,
      <<Frobnicate>>,
      <<ListAll, BadJson>>,
      <<ListAll, CompleteOne, DeleteOne>> }

\* message.content
ModelContents == {PyNone, ReplyText}

\* the exception a failed model call raises
ModelError == "RateLimitError"

\* message.content or ""
OrEmpty(content) == IF Truthy(content) THEN content ELSE PyStr(<<>>)

AgentError(e) == [k |-> "fmt", id |-> "agent_error", e |-> e]
ValidationError(e) == [k |-> "fmt", id |-> "validation_error", e |-> e]
ProcessingError(e) == [k |-> "fmt", id |-> "error_processing_message", e |-> e]

-----------------------------------------------------------------------------
(* agent.py: run_agent *)

AGENT_INSTRUCTIONS == [k |-> "fixed", id |-> "AGENT_INSTRUCTIONS"]

\* the function names of the tool definitions passed to the model
MCP_TOOLS == {"add_task", "list_tasks", "complete_task", "delete_task", "update_task"}

\* conversation_history[-10:]
HistoryWindow == 10

LastN(seq, n) == IF Len(seq) <= n THEN seq ELSE SubSeq(seq, Len(seq) - n + 1, Len(seq))

\* the messages list built before the first model call
BuildMessages(conversation_history, user_message) ==
    <<[role |-> "system", content |-> AGENT_INSTRUCTIONS]>>
    \o [i \in 1..Len(LastN(conversation_history, HistoryWindow)) |->
          [role |-> LastN(conversation_history, HistoryWindow)[i].role,
           content |-> LastN(conversation_history, HistoryWindow)[i].content]]
    \o <<[role |-> "user", content |-> PyStr(user_message)]>>

\* args.setdefault("user_id", user_id): an identity the model supplied is kept
InjectUserIfMissing(args, user_id) ==
    IF "user_id" \in DOMAIN args THEN args ELSE DictSet(args, "user_id", PyStr(user_id))

\* args["user_id"] = user_id
InjectUser(args, user_id) == DictSet(args, "user_id", PyStr(user_id))

\* only add_task has a validator
ValidateAddOnly(tool_name, args, user_message) ==
    IF tool_name = "add_task" THEN validate_add_task(args, user_message) ELSE Ret(args)

\* the validator run_agent picks for a tool
Validate(tool_name, args, user_message) ==
    IF tool_name = "add_task" THEN validate_add_task(args, user_message)
    ELSE IF tool_name = "update_task" THEN validate_update_task(args)
    ELSE Ret(args)

IdleTurn ==
    [pc |-> "idle", user_id |-> <<>>, authenticated_user_id |-> <<>>, message |-> <<>>,
     request_conversation_id |-> 0,
     conversation_id |-> 0, response_content |-> PyNone, final_content |-> PyNone,
     conversation_history |-> <<>>, messages |-> <<>>, requested |-> <<>>, i |-> 0,
     args |-> NoKeys, tool_calls |-> <<>>, assistant_response |-> PyStr(<<>>),
     model_calls |-> 0, caught |-> "", raised |-> "", user_msg_id |-> 0,
     assistant_msg_id |-> 0, status |-> 0, intent |-> "", confidence |-> 0, tools |-> {}]

Init ==
    /\ conversations = <<>>
    /\ messages = <<>>
    /\ tasks = <<>>
    /\ next_id = [conversations |-> 1, messages |-> 1, tasks |-> 1]
    /\ now = 0
    /\ turn = [w \in Workers |-> IdleTurn]
    /\ store_ret = [op |-> "none", user_id |-> <<>>, conversation_id |-> 0, result |-> PyNone]
    /\ store_ops = 0

\* run_agent returns (reply, trail)
Return(t, reply, trail) ==
    [t EXCEPT !.pc = "returned", !.assistant_response = reply, !.tool_calls = trail]

\* lines 140-154: language gate, intent (printed only), then the prompt
run_agent_draft(w) ==
    /\ turn[w].pc = "persisted"
    /\ LET t == turn[w]
           gate == validate_language(t.message)
           intent == classify_intent(t.message, t.conversation_history)
       IN  turn' = [turn EXCEPT ![w] =
                IF ~gate[1] THEN Return(t, gate[2], <<>>)
                ELSE [t EXCEPT !.pc = "awaiting_model",
                               !.intent = intent,
                               !.confidence = get_confidence_score(t.message, intent),
                               !.messages = BuildMessages(t.conversation_history, t.message)]]
    /\ UNCHANGED <<db_vars, store_ret, store_ops>>

\* lines 156-171 and 208-211: the first model call answers or raises
model_respond(w, ok, content, tool_calls) ==
    /\ turn[w].pc = "awaiting_model"
    /\ LET t == [turn[w] EXCEPT !.model_calls = @ + 1, !.tools = MCP_TOOLS]
       IN  turn' = [turn EXCEPT ![w] =
                IF ~ok
                THEN Return([t EXCEPT !.caught = ModelError], AgentError(ModelError), <<>>)
                ELSE IF tool_calls = <<>>
                THEN Return([t EXCEPT !.response_content = content], OrEmpty(content), <<>>)
                ELSE [t EXCEPT !.pc = "tool_round",
                               !.response_content = content,
                               !.assistant_response = OrEmpty(content),
                               !.requested = [j \in 1..Len(tool_calls) |->
                                    [id |-> j, name |-> tool_calls[j].name,
                                     arguments |-> tool_calls[j].arguments]],
                               !.i = 1]]
    /\ UNCHANGED <<db_vars, store_ret, store_ops>>

\* a call is refused when the classifier could not name the intent
tool_call_start_intent_gate(w) ==
    /\ turn[w].pc = "tool_round"
    /\ LET t == turn[w]
           tool_call == t.requested[t.i]
           parsed == tool_call.arguments
           validated == Validate(tool_call.name, InjectUser(parsed.ret, t.user_id), t.message)
       IN  turn' = [turn EXCEPT ![w] =
                IF Raised(parsed)
                THEN Return([t EXCEPT !.caught = parsed.exc], AgentError(parsed.exc), <<>>)
                ELSE IF t.intent = "UNCLEAR"
                THEN Return(t, ValidationError("intent"), <<>>)
                ELSE IF Raised(validated)
                THEN Return([t EXCEPT !.caught = validated.exc],
                            ValidationError(validated.exc), <<>>)
                ELSE [t EXCEPT !.pc = "in_tool", !.args = validated.ret]]
    /\ UNCHANGED <<db_vars, store_ret, store_ops>>

\* lines 173-187: identity injection and validation of the next tool call,
\* up to the call of call_tool
tool_call_start(w) ==
    /\ turn[w].pc = "tool_round"
    /\ LET t == turn[w]
           tool_call == t.requested[t.i]
           parsed == tool_call.arguments
           validated == Validate(tool_call.name, InjectUser(parsed.ret, t.user_id), t.message)
       IN  turn' = [turn EXCEPT ![w] =
                IF Raised(parsed)
                THEN Return([t EXCEPT !.caught = parsed.exc], AgentError(parsed.exc), <<>>)
                ELSE IF Raised(validated)
                THEN Return([t EXCEPT !.caught = validated.exc],
                            ValidationError(validated.exc), <<>>)
                ELSE [t EXCEPT !.pc = "in_tool", !.args = validated.ret]]
    /\ UNCHANGED <<db_vars, store_ret, store_ops>>

\* tool_calls.insert(0, ...): the newest call is put first
RecordCallFirst(tool_calls, tool_name, args) ==
    <<[tool |-> tool_name, args |-> args]>> \o tool_calls

\* tool_calls.append({"tool": tool_name, "args": args})
RecordCall(tool_calls, tool_name, args) ==
    Append(tool_calls, [tool |-> tool_name, args |-> args])

EnvFor(name) ==
    IF name \in DbTools THEN {"ok", "db_fault"}
    ELSE IF name \in HttpTools THEN {"ok", "http_status", "http_connect"}
    ELSE {"ok"}

\* lines 187-197: call_tool returns; the trail and the prompt grow
tool_call_return(w, env) ==
    /\ turn[w].pc = "in_tool"
    /\ env \in EnvFor(turn[w].requested[turn[w].i].name)
    /\ LET t == turn[w]
           tool_call == t.requested[t.i]
           r == call_tool(tool_call.name, t.args, env, tasks, next_id.tasks, now)
       IN  /\ tasks' = r.tasks
           /\ next_id' = [next_id EXCEPT !.tasks = r.next_task]
           /\ now' = r.now
           /\ turn' = [turn EXCEPT ![w] =
                [t EXCEPT !.tool_calls = RecordCall(@, tool_call.name, t.args),
                          !.messages = Append(@, [role |-> "tool",
                                                  tool_call_id |-> tool_call.id,
                                                  content |-> r.text]),
                          !.args = NoKeys,
                          !.i = @ + 1,
                          !.pc = IF t.i = Len(t.requested) THEN "awaiting_final"
                                 ELSE "tool_round"]]
    /\ UNCHANGED <<conversations, messages, store_ret, store_ops>>

\* the reply of the first response is returned, the second is dropped
model_final_stale_reply(w, ok, content) ==
    /\ turn[w].pc = "awaiting_final"
    /\ LET t == [turn[w] EXCEPT !.model_calls = @ + 1]
       IN  turn' = [turn EXCEPT ![w] =
                IF ~ok
                THEN Return([t EXCEPT !.caught = ModelError], AgentError(ModelError), <<>>)
                ELSE Return([t EXCEPT !.final_content = content], t.assistant_response,
                            t.tool_calls)]
    /\ UNCHANGED <<db_vars, store_ret, store_ops>>

\* lines 199-211: the second model call answers or raises
model_final(w, ok, content) ==
    /\ turn[w].pc = "awaiting_final"
    /\ LET t == [turn[w] EXCEPT !.model_calls = @ + 1]
       IN  turn' = [turn EXCEPT ![w] =
                IF ~ok
                THEN Return([t EXCEPT !.caught = ModelError], AgentError(ModelError), <<>>)
                ELSE Return([t EXCEPT !.final_content = content], OrEmpty(content),
                            t.tool_calls)]
    /\ UNCHANGED <<db_vars, store_ret, store_ops>>

-----------------------------------------------------------------------------
(* routes/chat.py: chat *)

Respond(t, status) == [t EXCEPT !.pc = "responded", !.status = status]

\* lines 72-93: authorisation, then load or create the conversation
chat_request(w, user_id, authenticated_user_id, conversation_id, message) ==
    /\ turn[w].pc = "idle"
    /\ LET t == [turn[w] EXCEPT !.user_id = user_id,
                                !.authenticated_user_id = authenticated_user_id,
                                !.message = message,
                                !.request_conversation_id = conversation_id]
       IN  IF user_id # authenticated_user_id
           THEN /\ turn' = [turn EXCEPT ![w] = Respond(t, 403)]
                /\ UNCHANGED db_vars
           ELSE IF conversation_id # 0
           THEN /\ turn' = [turn EXCEPT ![w] =
                        IF \/ ~ConversationExists(conversation_id)
                           \/ conversations[conversation_id].user_id # user_id
                        THEN Respond(t, 404)
                        ELSE [t EXCEPT !.pc = "have_conversation",
                                       !.conversation_id = conversation_id]]
                /\ UNCHANGED db_vars
           ELSE /\ conversations' =
                        (next_id.conversations :>
                            [user_id |-> user_id, created_at |-> now + 1, updated_at |-> now + 1])
                        @@ conversations
                /\ next_id' = [next_id EXCEPT !.conversations = @ + 1]
                /\ now' = now + 1
                /\ turn' = [turn EXCEPT ![w] =
                        [t EXCEPT !.pc = "have_conversation",
                                  !.conversation_id = next_id.conversations]]
                /\ UNCHANGED <<messages, tasks>>
    /\ UNCHANGED <<store_ret, store_ops>>

\* the history is the one this process remembers, the database is not read
chat_load_history_in_memory(w) ==
    /\ turn[w].pc = "have_conversation"
    /\ turn' = [turn EXCEPT ![w].pc = "have_history"]
    /\ UNCHANGED <<db_vars, store_ret, store_ops>>

\* lines 95-104: the history is read from the database
chat_load_history(w) ==
    /\ turn[w].pc = "have_conversation"
    /\ LET t == turn[w]
       IN  turn' = [turn EXCEPT ![w] =
                [t EXCEPT !.pc = "have_history",
                          !.conversation_history = RoleContent(MessagesOf(t.conversation_id))]]
    /\ UNCHANGED <<db_vars, store_ret, store_ops>>

\* the user message is only kept in memory until the reply is known
chat_store_user_message_deferred(w) ==
    /\ turn[w].pc = "have_history"
    /\ turn' = [turn EXCEPT ![w].pc = "persisted"]
    /\ UNCHANGED <<db_vars, store_ret, store_ops>>

\* lines 106-116: the user message is committed; the foreign key on
\* conversation_id rejects the insert when the conversation is gone
chat_store_user_message(w) ==
    /\ turn[w].pc = "have_history"
    /\ LET t == turn[w]
       IN  IF ConversationExists(t.conversation_id)
           THEN /\ messages' = Append(messages,
                        MessageRow(next_id.messages, t.conversation_id, t.user_id, "user",
                                   PyStr(t.message), PyNone, now + 1))
                /\ next_id' = [next_id EXCEPT !.messages = @ + 1]
                /\ now' = now + 1
                /\ turn' = [turn EXCEPT ![w] =
                        [t EXCEPT !.pc = "persisted", !.user_msg_id = next_id.messages]]
           ELSE /\ turn' = [turn EXCEPT ![w] = Respond(t, 500)]
                /\ UNCHANGED <<messages, next_id, now>>
    /\ UNCHANGED <<conversations, tasks, store_ret, store_ops>>

\* an error text that run_agent returned is stored as a message of its own,
\* before the reply
chat_store_reply_after_notice(w) ==
    /\ turn[w].pc = "returned"
    /\ LET t == turn[w]
           notice == IF t.caught = "" THEN <<>>
                     ELSE <<MessageRow(next_id.messages, t.conversation_id, t.user_id,
                                       "assistant", ProcessingError(t.caught), PyList(<<>>),
                                       now + 1)>>
           id == next_id.messages + Len(notice)
       IN  /\ messages' = Append(messages \o notice,
                    MessageRow(id, t.conversation_id, t.user_id, "assistant",
                               t.assistant_response, PyList(t.tool_calls), now + 1))
           /\ next_id' = [next_id EXCEPT !.messages = id + 1]
           /\ now' = now + 1
           /\ conversations' = [conversations EXCEPT ![t.conversation_id].updated_at = now + 1]
           /\ turn' = [turn EXCEPT ![w] = Respond([t EXCEPT !.assistant_msg_id = id], 200)]
    /\ UNCHANGED <<tasks, store_ret, store_ops>>

\* lines 118-164: the outcome of run_agent is stored and answered
chat_store_reply(w) ==
    /\ turn[w].pc = "returned"
    /\ LET t == turn[w]
           failed == t.raised # ""
           content == IF failed THEN ProcessingError(t.raised) ELSE t.assistant_response
           trail == IF failed THEN <<>> ELSE t.tool_calls
       IN  IF ConversationExists(t.conversation_id)
           THEN /\ messages' = Append(messages,
                        MessageRow(next_id.messages, t.conversation_id, t.user_id, "assistant",
                                   content, PyList(trail), now + 1))
                /\ next_id' = [next_id EXCEPT !.messages = @ + 1]
                /\ now' = now + 1
                /\ conversations' =
                        IF failed THEN conversations
                        ELSE [conversations EXCEPT ![t.conversation_id].updated_at = now + 1]
                /\ turn' = [turn EXCEPT ![w] =
                        Respond([t EXCEPT !.assistant_msg_id = next_id.messages],
                                IF failed THEN 500 ELSE 200)]
           ELSE /\ turn' = [turn EXCEPT ![w] = Respond(t, 500)]
                /\ UNCHANGED <<conversations, messages, next_id, now>>
    /\ UNCHANGED <<tasks, store_ret, store_ops>>

\* bound on the number of stored messages up to which a process takes
\* another request
MaxStored == 2

\* lines 159-164: the response is sent, the locals of the request are gone
chat_return(w) ==
    /\ turn[w].pc = "responded"
    /\ Len(messages) <= MaxStored
    /\ turn' = [turn EXCEPT ![w] = IdleTurn]
    /\ UNCHANGED <<db_vars, store_ret, store_ops>>

\* a process that died is started again with nothing in memory
restart(w) ==
    /\ turn[w].pc = "crashed"
    /\ Len(messages) <= MaxStored
    /\ turn' = [turn EXCEPT ![w] = IdleTurn]
    /\ UNCHANGED <<db_vars, store_ret, store_ops>>

\* the serving process dies in the middle of a request
crash(w) ==
    /\ turn[w].pc \notin {"idle", "responded", "crashed"}
    /\ LET t == turn[w]
       IN  turn' = [turn EXCEPT ![w] =
                [IdleTurn EXCEPT !.pc = "crashed", !.user_id = t.user_id,
                                 !.authenticated_user_id = t.authenticated_user_id,
                                 !.request_conversation_id = t.request_conversation_id,
                                 !.message = t.message,
                                 !.conversation_id = t.conversation_id,
                                 !.user_msg_id = t.user_msg_id,
                                 !.model_calls = t.model_calls]]
    /\ UNCHANGED <<db_vars, store_ret, store_ops>>

-----------------------------------------------------------------------------
(* chatkit_store.py: ChatKitStore *)

Returned(op, user_id, conversation_id, result) ==
    [op |-> op, user_id |-> user_id, conversation_id |-> conversation_id, result |-> result]

\* the owner test is left out
OwnedByAnyone(user_id, conversation_id) == ConversationExists(conversation_id)

OwnedBy(user_id, conversation_id) ==
    /\ ConversationExists(conversation_id)
    /\ conversations[conversation_id].user_id = user_id

get_conversation(user_id, conversation_id) ==
    IF ~OwnedBy(user_id, conversation_id) THEN PyNone
    ELSE [id |-> conversation_id,
          user_id |-> conversations[conversation_id].user_id,
          created_at |-> conversations[conversation_id].created_at,
          updated_at |-> conversations[conversation_id].updated_at]

\* limit 100, offset 0
get_messages(conversation_id, user_id) ==
    IF ~OwnedBy(user_id, conversation_id) THEN <<>>
    ELSE LET rows == MessagesOf(conversation_id)
         IN  [j \in 1..(IF Len(rows) < 100 THEN Len(rows) ELSE 100) |->
                [id |-> rows[j].id, role |-> rows[j].role, content |-> rows[j].content,
                 tool_calls |-> IF Truthy(rows[j].tool_calls) THEN rows[j].tool_calls
                                ELSE PyList(<<>>),
                 created_at |-> rows[j].created_at]]

get_conversation_history(conversation_id, user_id) ==
    RoleContent(get_messages(conversation_id, user_id))

create_conversation(user_id, fault) ==
    /\ store_ops < MaxStoreOps
    /\ store_ops' = store_ops + 1
    /\ IF fault
       THEN /\ store_ret' = Returned("create_conversation", user_id, 0, PyNone)
            /\ UNCHANGED db_vars
       ELSE /\ conversations' =
                    (next_id.conversations :>
                        [user_id |-> user_id, created_at |-> now + 1, updated_at |-> now + 1])
                    @@ conversations
            /\ next_id' = [next_id EXCEPT !.conversations = @ + 1]
            /\ now' = now + 1
            /\ store_ret' = Returned("create_conversation", user_id, 0,
                                     PyInt(next_id.conversations))
            /\ UNCHANGED <<messages, tasks>>
    /\ UNCHANGED turn

add_message(conversation_id, user_id, role, content, tool_calls, fault) ==
    /\ store_ops < MaxStoreOps
    /\ store_ops' = store_ops + 1
    /\ IF fault \/ ~OwnedBy(user_id, conversation_id)
       THEN /\ store_ret' = Returned("add_message", user_id, conversation_id, PyNone)
            /\ UNCHANGED db_vars
       ELSE /\ messages' = Append(messages,
                    MessageRow(next_id.messages, conversation_id, user_id, role, content,
                               PyList(IF Truthy(tool_calls) THEN tool_calls.items ELSE <<>>),
                               now + 1))
            /\ conversations' = [conversations EXCEPT ![conversation_id].updated_at = now + 1]
            /\ next_id' = [next_id EXCEPT !.messages = @ + 1]
            /\ now' = now + 1
            /\ store_ret' = Returned("add_message", user_id, conversation_id,
                                     PyInt(next_id.messages))
            /\ UNCHANGED tasks
    /\ UNCHANGED turn

delete_conversation(user_id, conversation_id, fault) ==
    /\ store_ops < MaxStoreOps
    /\ store_ops' = store_ops + 1
    /\ IF fault \/ ~OwnedBy(user_id, conversation_id)
       THEN /\ store_ret' = Returned("delete_conversation", user_id, conversation_id,
                                     PyBool(FALSE))
            /\ UNCHANGED db_vars
       ELSE /\ messages' = SelectSeq(messages, LAMBDA m : m.conversation_id # conversation_id)
            /\ conversations' =
                    [c \in (DOMAIN conversations) \ {conversation_id} |-> conversations[c]]
            /\ store_ret' = Returned("delete_conversation", user_id, conversation_id,
                                     PyBool(TRUE))
            /\ UNCHANGED <<tasks, next_id, now>>
    /\ UNCHANGED turn

update_conversation_timestamp(user_id, conversation_id, fault) ==
    /\ store_ops < MaxStoreOps
    /\ store_ops' = store_ops + 1
    /\ IF fault \/ ~OwnedBy(user_id, conversation_id)
       THEN /\ store_ret' = Returned("update_conversation_timestamp", user_id,
                                     conversation_id, PyBool(FALSE))
            /\ UNCHANGED db_vars
       ELSE /\ conversations' = [conversations EXCEPT ![conversation_id].updated_at = now + 1]
            /\ now' = now + 1
            /\ store_ret' = Returned("update_conversation_timestamp", user_id,
                                     conversation_id, PyBool(TRUE))
            /\ UNCHANGED <<messages, tasks, next_id>>
    /\ UNCHANGED turn

-----------------------------------------------------------------------------
(* chatkit_server.py: EvolutionTodoChatKitServer.delete_thread *)

\* the locals of a delete_thread call
IdleDelete == [pc |-> "idle", user_id |-> <<>>, conversation_id |-> 0, selected |-> {},
               result |-> PyNone]

\* lines 302-313: the conversation is looked up, its owner is compared and
\* the messages it has at that moment are selected
delete_thread_select(d, user_id, thread_id) ==
    /\ turn[d].pc = "idle"
    /\ turn' = [turn EXCEPT ![d] =
            IF ~ConversationExists(thread_id) \/ conversations[thread_id].user_id # user_id
            THEN [IdleDelete EXCEPT !.user_id = user_id, !.conversation_id = thread_id,
                                    !.result = PyBool(FALSE)]
            ELSE [IdleDelete EXCEPT !.pc = "selected", !.user_id = user_id,
                                    !.conversation_id = thread_id,
                                    !.selected = {MessagesOf(thread_id)[j].id :
                                                    j \in 1..Len(MessagesOf(thread_id))}]]
    /\ UNCHANGED <<db_vars, store_ret, store_ops>>

\* the selected rows and the conversation are deleted whatever else refers to
\* the conversation
delete_thread_commit_unchecked(d) ==
    /\ turn[d].pc = "selected"
    /\ LET t == turn[d]
       IN  /\ messages' = SelectSeq(messages, LAMBDA m : m.id \notin t.selected)
           /\ conversations' =
                   [c \in (DOMAIN conversations) \ {t.conversation_id} |-> conversations[c]]
           /\ turn' = [turn EXCEPT ![d] = [t EXCEPT !.pc = "idle", !.result = PyBool(TRUE)]]
    /\ UNCHANGED <<tasks, next_id, now, store_ret, store_ops>>

\* lines 314-321: the selected rows and the conversation are deleted in one
\* commit; the commit fails, and changes nothing, when the conversation is
\* already gone or a message stored since the selection still refers to it
delete_thread_commit(d) ==
    /\ turn[d].pc = "selected"
    /\ LET t == turn[d]
           rows == MessagesOf(t.conversation_id)
       IN  IF /\ ConversationExists(t.conversation_id)
              /\ \A j \in 1..Len(rows) : rows[j].id \in t.selected
           THEN /\ messages' = SelectSeq(messages, LAMBDA m : m.id \notin t.selected)
                /\ conversations' =
                        [c \in (DOMAIN conversations) \ {t.conversation_id} |->
                            conversations[c]]
                /\ turn' = [turn EXCEPT ![d] =
                        [t EXCEPT !.pc = "idle", !.result = PyBool(TRUE)]]
           ELSE /\ turn' = [turn EXCEPT ![d] =
                        [t EXCEPT !.pc = "idle", !.result = PyStr(<<>>)]]
                /\ UNCHANGED <<conversations, messages>>
    /\ UNCHANGED <<tasks, next_id, now, store_ret, store_ops>>

-----------------------------------------------------------------------------
(* The system *)

\* conversation ids a caller may name: none (0), or a small id
ConversationIds == 0..2

Next ==
    \/ \E w \in Workers, u \in Users, a \in Users, c \in ConversationIds, m \in Utterances :
            chat_request(w, u, a, c, m)
    \/ \E w \in Workers : chat_load_history(w)
    \/ \E w \in Workers : chat_store_user_message(w)
    \/ \E w \in Workers : run_agent_draft(w)
    \/ \E w \in Workers, ok \in BOOLEAN, content \in ModelContents, tc \in ModelToolCalls :
            model_respond(w, ok, content, tc)
    \/ \E w \in Workers : tool_call_start(w)
    \/ \E w \in Workers, env \in EnvOutcomes : tool_call_return(w, env)
    \/ \E w \in Workers, ok \in BOOLEAN, content \in ModelContents : model_final(w, ok, content)
    \/ \E w \in Workers : chat_store_reply(w)
    \/ \E w \in Workers : crash(w)
    \/ \E u \in Users, fault \in BOOLEAN : create_conversation(u, fault)
    \/ \E u \in Users, c \in ConversationIds \ {0}, role \in {"user", "assistant"},
          fault \in BOOLEAN :
            add_message(c, u, role, ReplyText, PyNone, fault)
    \/ \E u \in Users, c \in ConversationIds \ {0}, fault \in BOOLEAN :
            delete_conversation(u, c, fault)
    \/ \E u \in Users, c \in ConversationIds \ {0}, fault \in BOOLEAN :
            update_conversation_timestamp(u, c, fault)

Spec == Init /\ [][Next]_vars

-----------------------------------------------------------------------------
(* Turns on a conversation that already has a history *)

\* bound on the number of messages the conversation starts with
MaxHist == 12

\* the n-th message of a conversation whose turns all ran to their end
PriorMessage(n) ==
    MessageRow(n, 1, U1, IF n % 2 = 1 THEN "user" ELSE "assistant", PyStr(<<48 + n>>),
               IF n % 2 = 1 THEN PyNone ELSE PyList(<<>>), n + 1)

InitHistory ==
    \E n \in 0..MaxHist :
        /\ conversations = (1 :> [user_id |-> U1, created_at |-> 1, updated_at |-> n + 1])
        /\ messages = [j \in 1..n |-> PriorMessage(j)]
        /\ tasks = <<>>
        /\ next_id = [conversations |-> 2, messages |-> n + 1, tasks |-> 1]
        /\ now = n + 1
        /\ turn = [w \in Workers |-> IdleTurn]
        /\ store_ret = [op |-> "none", user_id |-> <<>>, conversation_id |-> 0,
                        result |-> PyNone]
        /\ store_ops = 0

NextHistory ==
    \/ \E w \in Workers, u \in Users, a \in Users, c \in ConversationIds, m \in Utterances :
            chat_request(w, u, a, c, m)
    \/ \E w \in Workers : chat_load_history(w)
    \/ \E w \in Workers : chat_store_user_message(w)
    \/ \E w \in Workers : run_agent_draft(w)

SpecHistory == InitHistory /\ [][NextHistory]_vars

-----------------------------------------------------------------------------
(* The validators on the argument sets a model response can carry *)

\* "add task": command keywords only
MsgKeywords == <<97, 100, 100, 32, 116, 97, 115, 107>>
UserTexts == {MsgEnglish, MsgKeywords, <<>>}

Blank == PyStr(<<32>>)
TagA == PyStr(<<97>>)
\* "2024-02-29", "2024-01-15T10:00:00Z", "tomorrow"
LeapDay == PyStr(<<50, 48, 50, 52, 45, 48, 50, 45, 50, 57>>)
ZuluTime == PyStr(<<50, 48, 50, 52, 45, 48, 49, 45, 49, 53, 84, 49, 48, 58, 48, 48, 58, 48, 48, 90>>)
Tomorrow == PyStr(<<116, 111, 109, 111, 114, 114, 111, 119>>)
\* "Daily", "urgent", "work"
CapitalDaily == PyStr(<<68, 97, 105, 108, 121>>)
Urgent == PyStr(<<117, 114, 103, 101, 110, 116>>)
Work == PyStr(<<119, 111, 114, 107>>)

\* a key that is absent or carries one of the values
Opt(key, values) == {NoKeys} \cup {(key :> v) : v \in values}

Titles == {PyNone, PyStr(<<>>), Blank, Milk, PyInt(5)}
Recurrences ==
    {PyNone, PyStr(<<>>), PyInt(5), CapitalDaily}
    \cup {PyStr(Word(w)) : w \in {"none", "null", "daily", "weekly", "monthly", "yearly"}}
TagLists ==
    {PyNone, Work, PyList(<<>>), PyList(<<TagA>>), PyList(<<PyStr(<<>>), Blank>>),
     PyList(<<PyInt(5)>>), PyList(<<PyNone, TagA>>)}
DueDates == {PyNone, PyStr(<<>>), PyStr(Word("null")), LeapDay, ZuluTime, Tomorrow, PyInt(5)}

\* json.loads(tool_call.function.arguments) of an add_task call
AddTaskArgs ==
    { t @@ d @@ r @@ p @@ dd @@ tg :
        t \in Opt("title", Titles),
        d \in Opt("description", {PyStr(<<>>), ReplyText}),
        r \in Opt("recurrence_pattern", Recurrences),
        p \in Opt("priority", {Urgent, PyStr(Word("high"))}),
        dd \in Opt("due_date", {PyNone, LeapDay, Tomorrow}),
        tg \in Opt("tags", {Work, PyList(<<PyInt(5)>>), PyList(<<PyStr(<<>>), TagA>>)}) }

\* json.loads(tool_call.function.arguments) of an update_task call
UpdateTaskArgs ==
    { i @@ t @@ d @@ p @@ dd @@ tg :
        i \in Opt("task_id", {PyNone, PyInt(1)}),
        t \in Opt("title", Titles),
        d \in Opt("description", {PyNone, PyStr(<<>>), ReplyText}),
        p \in Opt("priority", {PyNone, Urgent, PyStr(Word("high"))}),
        dd \in Opt("due_date", DueDates),
        tg \in Opt("tags", TagLists) }

\* the locals of a turn whose first model response carries tool_calls
AwaitingTool(user_id, message, tool_calls) ==
    [IdleTurn EXCEPT !.pc = "tool_round", !.user_id = user_id,
                     !.authenticated_user_id = user_id, !.message = message,
                     !.conversation_id = 1, !.user_msg_id = 1, !.model_calls = 1,
                     !.tools = MCP_TOOLS,
                     !.intent = classify_intent(message, <<>>),
                     !.confidence = get_confidence_score(message,
                                                         classify_intent(message, <<>>)),
                     !.messages = BuildMessages(<<>>, message),
                     !.requested = [j \in 1..Len(tool_calls) |->
                            [id |-> j, name |-> tool_calls[j].name,
                             arguments |-> tool_calls[j].arguments]],
                     !.i = 1]

InitValidate ==
    \E call \in {<<ToolCall("add_task", Ret(a)), m>> : a \in AddTaskArgs, m \in UserTexts}
                \cup {<<ToolCall("update_task", Ret(a)), MsgEnglish>> : a \in UpdateTaskArgs} :
        /\ conversations = (1 :> [user_id |-> U1, created_at |-> 1, updated_at |-> 1])
        /\ messages = <<MessageRow(1, 1, U1, "user", PyStr(call[2]), PyNone, 2)>>
        /\ tasks = <<>>
        /\ next_id = [conversations |-> 2, messages |-> 2, tasks |-> 1]
        /\ now = 2
        /\ turn = [w \in Workers |-> AwaitingTool(U1, call[2], <<call[1]>>)]
        /\ store_ret = [op |-> "none", user_id |-> <<>>, conversation_id |-> 0,
                        result |-> PyNone]
        /\ store_ops = 0

NextValidate == \E w \in Workers : tool_call_start(w)

SpecValidate == InitValidate /\ [][NextValidate]_vars

-----------------------------------------------------------------------------
(* Turns on utterances of every intent label *)

\* "update task 5", "delete task 1", "show all", "mark 1", "find milk", "how many"
MsgUpdate == <<117, 112, 100, 97, 116, 101, 32, 116, 97, 115, 107, 32, 53>>
MsgDelete == <<100, 101, 108, 101, 116, 101, 32, 116, 97, 115, 107, 32, 49>>
MsgList == <<115, 104, 111, 119, 32, 97, 108, 108>>
MsgComplete == <<109, 97, 114, 107, 32, 49>>
MsgSearch == <<102, 105, 110, 100, 32, 109, 105, 108, 107>>
MsgAnalytics == <<104, 111, 119, 32, 109, 97, 110, 121>>
IntentUtterances ==
    {MsgEnglish, MsgUpdate, MsgDelete, MsgList, MsgComplete, MsgSearch, MsgAnalytics, MsgUrdu}

\* message.tool_calls of the responses the model gives to them
IntentToolCalls ==
    {<<>>, <<AddMilkAsU2>>, <<UpdateNoId>>, <<DeleteOne>>, <<ListAll, CompleteOne, DeleteOne>>}

NextIntent ==
    \/ \E w \in Workers, m \in IntentUtterances : chat_request(w, U1, U1, 0, m)
    \/ \E w \in Workers : chat_load_history(w)
    \/ \E w \in Workers : chat_store_user_message(w)
    \/ \E w \in Workers : run_agent_draft(w)
    \/ \E w \in Workers, ok \in BOOLEAN, content \in ModelContents, tc \in IntentToolCalls :
            model_respond(w, ok, content, tc)
    \/ \E w \in Workers : tool_call_start(w)
    \/ \E w \in Workers, env \in EnvOutcomes : tool_call_return(w, env)
    \/ \E w \in Workers, ok \in BOOLEAN, content \in ModelContents : model_final(w, ok, content)
    \/ \E w \in Workers : chat_store_reply(w)

SpecIntent == Init /\ [][NextIntent]_vars

-----------------------------------------------------------------------------
(* Two server processes serve the turns of one conversation, and restart *)

Servers == {"s1", "s2"}

InitRestart ==
    /\ conversations = (1 :> [user_id |-> U1, created_at |-> 1, updated_at |-> 1])
    /\ messages = <<>>
    /\ tasks = <<>>
    /\ next_id = [conversations |-> 2, messages |-> 1, tasks |-> 1]
    /\ now = 1
    /\ turn = [w \in Servers |-> IdleTurn]
    /\ store_ret = [op |-> "none", user_id |-> <<>>, conversation_id |-> 0, result |-> PyNone]
    /\ store_ops = 0

NextRestart ==
    \/ \E w \in Servers, m \in {MsgEnglish, MsgUrdu} : chat_request(w, U1, U1, 1, m)
    \/ \E w \in Servers : chat_load_history(w)
    \/ \E w \in Servers : chat_store_user_message(w)
    \/ \E w \in Servers : run_agent_draft(w)
    \/ \E w \in Servers, ok \in BOOLEAN : model_respond(w, ok, ReplyText, <<>>)
    \/ \E w \in Servers : chat_store_reply(w)
    \/ \E w \in Servers : chat_return(w)
    \/ \E w \in Servers : crash(w)
    \/ \E w \in Servers : restart(w)

SpecRestart == InitRestart /\ [][NextRestart]_vars

-----------------------------------------------------------------------------
(* Turns on two conversations while their owner deletes them *)

Deleters == {"d1"}

InitDelete ==
    /\ conversations = [c \in {1, 2} |-> [user_id |-> U1, created_at |-> 1, updated_at |-> 1]]
    /\ messages = <<>>
    /\ tasks = <<>>
    /\ next_id = [conversations |-> 3, messages |-> 1, tasks |-> 1]
    /\ now = 1
    /\ turn = [w \in Workers \cup Deleters |-> IF w \in Workers THEN IdleTurn ELSE IdleDelete]
    /\ store_ret = [op |-> "none", user_id |-> <<>>, conversation_id |-> 0, result |-> PyNone]
    /\ store_ops = 0

NextDelete ==
    \/ \E w \in Workers, c \in {1, 2} : chat_request(w, U1, U1, c, MsgEnglish)
    \/ \E w \in Workers : chat_load_history(w)
    \/ \E w \in Workers : chat_store_user_message(w)
    \/ \E w \in Workers : run_agent_draft(w)
    \/ \E w \in Workers, ok \in BOOLEAN : model_respond(w, ok, ReplyText, <<>>)
    \/ \E w \in Workers : chat_store_reply(w)
    \/ \E w \in Workers : chat_return(w)
    \/ \E d \in Deleters, u \in Users, c \in {1, 2} : delete_thread_select(d, u, c)
    \/ \E d \in Deleters : delete_thread_commit(d)

SpecDelete == InitDelete /\ [][NextDelete]_vars

-----------------------------------------------------------------------------
(* Tool calls of one user while both users have tasks *)

High == PyStr(<<104, 105, 103, 104>>)

\* a row of table tasks as add_task stores it
TaskRow(user_id, title) ==
    [user_id |-> user_id, title |-> title, description |-> title, completed |-> FALSE,
     priority |-> PyStr(Word("none")), tags |-> PyList(<<>>), due_date |-> PyNone,
     recurrence_pattern |-> PyNone, is_recurring |-> FALSE, updated_at |-> 1]

\* the task ids a call names: a task of each user and none
TaskIds == 1..3

\* calls of the operations that read or write table tasks themselves; the
\* model names either user, or nobody, as user_id
TaskCalls ==
    UNION { { ToolCall("list_tasks", Ret(NoKeys)),
              ToolCall("list_tasks", Ret(("user_id" :> PyStr(u)) @@ ("search" :> Milk))),
              ToolCall("complete_task", Ret(("task_id" :> PyInt(id)) @@ ("user_id" :> PyStr(u)))),
              ToolCall("update_task", Ret(("task_id" :> PyInt(id)) @@ ("title" :> High))),
              ToolCall("set_priority", Ret(("task_id" :> PyInt(id)) @@ ("priority" :> High))),
              ToolCall("add_tags", Ret(("task_id" :> PyInt(id)) @@ ("user_id" :> PyStr(u))
                                       @@ ("tags" :> PyList(<<High>>)))) }
            : id \in TaskIds, u \in Users }

InitTasks ==
    \E u \in Users, first \in TaskCalls, second \in TaskCalls :
        /\ conversations = (1 :> [user_id |-> u, created_at |-> 1, updated_at |-> 1])
        /\ messages = <<MessageRow(1, 1, u, "user", PyStr(MsgEnglish), PyNone, 2)>>
        /\ tasks = (1 :> TaskRow(U1, Milk)) @@ (2 :> TaskRow(U2, Milk))
        /\ next_id = [conversations |-> 2, messages |-> 2, tasks |-> 3]
        /\ now = 2
        /\ turn = [w \in Workers |-> AwaitingTool(u, MsgEnglish, <<first, second>>)]
        /\ store_ret = [op |-> "none", user_id |-> <<>>, conversation_id |-> 0,
                        result |-> PyNone]
        /\ store_ops = 0

NextTasks ==
    \/ \E w \in Workers : tool_call_start(w)
    \/ \E w \in Workers, env \in EnvOutcomes : tool_call_return(w, env)

SpecTasks == InitTasks /\ [][NextTasks]_vars

-----------------------------------------------------------------------------
(* The classifier on utterances made of keywords of every family *)

\* add new call update postpone delete remove done mark find show count pay
\* milk "task 5" "#3"
ClassifierWords ==
    { <<97, 100, 100>>,
      <<110, 101, 119>>,
      <<99, 97, 108, 108>>,
      <<117, 112, 100, 97, 116, 101>>,
      <<112, 111, 115, 116, 112, 111, 110, 101>>,
      <<100, 101, 108, 101, 116, 101>>,
      <<114, 101, 109, 111, 118, 101>>,
      <<100, 111, 110, 101>>,
      <<109, 97, 114, 107>>,
      <<102, 105, 110, 100>>,
      <<115, 104, 111, 119>>,
      <<99, 111, 117, 110, 116>>,
      <<112, 97, 121>>,
      <<109, 105, 108, 107>>,
      <<116, 97, 115, 107, 32, 53>>,
      <<35, 51>> }

\* bound on the number of words of an utterance
MaxWords == 3

RECURSIVE Phrases(_)
\* the utterances of n words, separated by blanks
Phrases(n) ==
    IF n = 1 THEN ClassifierWords
    ELSE {p \o <<32>> \o w : p \in Phrases(n - 1), w \in ClassifierWords}

\* the utterances of at most n words
ClassifierUtterances(n) == UNION {Phrases(k) : k \in 1..n}

\* the locals of a turn whose user message has just been stored
Persisted(user_id, message) ==
    [IdleTurn EXCEPT !.pc = "persisted", !.user_id = user_id,
                     !.authenticated_user_id = user_id, !.message = message,
                     !.conversation_id = 1, !.user_msg_id = 1]

InitClassify ==
    \E m \in ClassifierUtterances(MaxWords) :
        /\ conversations = (1 :> [user_id |-> U1, created_at |-> 1, updated_at |-> 1])
        /\ messages = <<MessageRow(1, 1, U1, "user", PyStr(m), PyNone, 2)>>
        /\ tasks = <<>>
        /\ next_id = [conversations |-> 2, messages |-> 2, tasks |-> 1]
        /\ now = 2
        /\ turn = [w \in Workers |-> Persisted(U1, m)]
        /\ store_ret = [op |-> "none", user_id |-> <<>>, conversation_id |-> 0,
                        result |-> PyNone]
        /\ store_ops = 0

NextClassify == \E w \in Workers : run_agent_draft(w)

SpecClassify == InitClassify /\ [][NextClassify]_vars

-----------------------------------------------------------------------------
(* Properties *)

\* the arguments carry the identity of the caller of run_agent
ActsFor(args, user_id) == "user_id" \in DOMAIN args /\ args["user_id"] = PyStr(user_id)

\* C1 - identity injection: the arguments of every tool call handed to
\* call_tool, and of every entry of the trail (also once stored with the
\* assistant message), carry the user_id of the authenticated caller of the
\* turn, whatever user_id the model supplied, and also after the validators
\* rewrote the arguments.
IdentityInjection ==
    /\ \A w \in Workers :
        /\ turn[w].pc = "in_tool" => ActsFor(turn[w].args, turn[w].user_id)
        /\ \A j \in 1..Len(turn[w].tool_calls) :
                ActsFor(turn[w].tool_calls[j].args, turn[w].user_id)
    /\ \A j \in 1..Len(messages) :
            IsList(messages[j].tool_calls) =>
                \A n \in 1..Len(messages[j].tool_calls.items) :
                    ActsFor(messages[j].tool_calls.items[n].args, messages[j].user_id)

\* a validated add_task call is in flight for which the model named another user
IdentityInjectionWitness ==
    \E w \in Workers :
        LET t == turn[w]
        IN  /\ t.pc = "in_tool"
            /\ t.requested[t.i].name = "add_task"
            /\ "user_id" \in DOMAIN t.requested[t.i].arguments.ret
            /\ t.requested[t.i].arguments.ret["user_id"] # PyStr(t.user_id)

\* the steps of a turn that follow the commit of the user message
AfterUserCommit ==
    {"persisted", "awaiting_model", "tool_round", "in_tool", "awaiting_final", "returned"}

\* the row of the user message of the turn is in table messages
UserMessageStored(t) ==
    \E j \in 1..Len(messages) :
        /\ messages[j].id = t.user_msg_id
        /\ messages[j].conversation_id = t.conversation_id
        /\ messages[j].user_id = t.user_id
        /\ messages[j].role = "user"
        /\ messages[j].content = PyStr(t.message)

\* C2 - durability ordering: a turn makes no model call and executes no tool
\* before its user message is committed, and from the commit on, through
\* success, failure or interruption of the turn, the conversation (as long as
\* its owner has not deleted it) contains that user message, with or without
\* an assistant reply.
DurabilityOrdering ==
    \A w \in Workers :
        LET t == turn[w]
        IN  /\ (t.pc \in AfterUserCommit \/ t.model_calls > 0 \/ t.tool_calls # <<>>
                    \/ t.status = 200)
                    => t.user_msg_id # 0
            /\ (t.user_msg_id # 0 /\ ConversationExists(t.conversation_id))
                    => UserMessageStored(t)

\* a turn was interrupted after a model call; its conversation holds the user
\* message and no assistant message
DurabilityOrderingWitness ==
    \E w \in Workers :
        LET t == turn[w]
        IN  /\ t.pc = "crashed"
            /\ t.model_calls > 0
            /\ UserMessageStored(t)
            /\ \A j \in 1..Len(messages) :
                    messages[j].conversation_id = t.conversation_id
                        => messages[j].role = "user"

\* a tool message of the prompt that reports a failed operation
FailedToolMessage(m) ==
    m.role = "tool" /\ m.content.id \in {"not_found", "api_error", "error"}

\* the model call, the validation or a tool execution of the turn failed
TurnFailed(t) ==
    \/ t.caught # ""
    \/ \E j \in 1..Len(t.messages) : FailedToolMessage(t.messages[j])

\* C3 - error propagation: when an exception is raised during a turn (by the
\* model call, by the update validation, by a tool call), run_agent ends by
\* raising it to its caller and never by returning a (reply, trail) pair.
ErrorPropagation ==
    \A w \in Workers :
        (turn[w].caught # "" /\ turn[w].pc \in {"returned", "responded"})
            => turn[w].raised # ""

\* C4 - no successful-looking reply on failure: a turn in which the model
\* call, the update validation or a tool execution failed is answered with a
\* failure status, and the assistant message it appended is the explicit
\* error message of the endpoint.
NoReplyOnFailure ==
    \A w \in Workers :
        LET t == turn[w]
        IN  (t.pc = "responded" /\ TurnFailed(t)) =>
                /\ t.status # 200
                /\ \A j \in 1..Len(messages) :
                        messages[j].id = t.assistant_msg_id
                            => messages[j].content = ProcessingError(t.raised)

\* C6 - failing tool execution fails the turn: once the task-store operation
\* behind a tool call has failed, the call is not in the trail, no further
\* tool call and no second model call is made, and the turn is answered as a
\* failure.
FailingToolFailsTurn ==
    \A w \in Workers :
        LET t == turn[w]
        IN  \A j \in 1..Len(t.messages) :
                FailedToolMessage(t.messages[j]) =>
                    /\ Len(t.tool_calls) < t.messages[j].tool_call_id
                    /\ t.pc \notin {"tool_round", "in_tool", "awaiting_final"}
                    /\ t.model_calls < 2
                    /\ t.status # 200

\* C7 - unknown tool fails the turn: a tool name outside the registry is never
\* recorded in the trail as executed, and a turn whose model asked for one gets
\* no second model call and no normal reply.
UnknownToolFailsTurn ==
    \A w \in Workers :
        LET t == turn[w]
        IN  /\ \A j \in 1..Len(t.tool_calls) : t.tool_calls[j].tool \in RegistryTools
            /\ (\E j \in 1..Len(t.requested) : t.requested[j].name \notin RegistryTools)
                    => (t.model_calls < 2 /\ t.status # 200)

\* the rows stored in the conversation of the turn before its user message
PriorRows(t) ==
    SelectSeq(messages, LAMBDA m : m.conversation_id = t.conversation_id /\ m.id < t.user_msg_id)

\* C8 - full-history prompt: the prompt of the first model call is the system
\* instruction, then every prior message of the conversation (role and
\* content, oldest first), then the new utterance: N + 2 entries for N prior
\* messages.
FullHistoryPrompt ==
    \A w \in Workers :
        LET t == turn[w]
        IN  t.pc = "awaiting_model" =>
                /\ Len(t.messages) = Len(PriorRows(t)) + 2
                /\ t.messages =
                        <<[role |-> "system", content |-> AGENT_INSTRUCTIONS]>>
                        \o RoleContent(PriorRows(t))
                        \o <<[role |-> "user", content |-> PyStr(t.message)]>>

\* C5 - user isolation of conversations: for a conversation owned by another
\* user, get_conversation returns None and get_messages returns the empty
\* list; add_message and delete_conversation fail and leave the database
\* unchanged; a chat turn naming it is answered 404 without any message
\* appended and without a model call.
ConversationIsolation ==
    /\ [](\A a \in Users : \A c \in DOMAIN conversations :
            conversations[c].user_id # a =>
                /\ get_conversation(a, c) = PyNone
                /\ get_messages(c, a) = <<>>)
    /\ [][(/\ store_ops' = store_ops + 1
           /\ store_ret'.op \in {"add_message", "delete_conversation"}
           /\ ConversationExists(store_ret'.conversation_id)
           /\ conversations[store_ret'.conversation_id].user_id # store_ret'.user_id)
            => (/\ ~Truthy(store_ret'.result)
                /\ UNCHANGED db_vars)]_vars
    /\ [][\A w \in Workers :
            (/\ turn[w].pc = "idle"
             /\ turn'[w].pc # "idle"
             /\ turn'[w].user_id = turn'[w].authenticated_user_id
             /\ ConversationExists(turn'[w].request_conversation_id)
             /\ conversations[turn'[w].request_conversation_id].user_id # turn'[w].user_id)
                => (/\ turn'[w].pc = "responded"
                    /\ turn'[w].status = 404
                    /\ UNCHANGED db_vars)]_vars
    /\ [](\A w \in Workers :
            turn[w].status = 404 =>
                /\ turn[w].pc = "responded"
                /\ turn[w].model_calls = 0
                /\ turn[w].user_msg_id = 0
                /\ turn[w].assistant_msg_id = 0)

\* another user's delete_conversation on a conversation that holds messages
\* has returned False
ConversationIsolationWitness ==
    /\ store_ret.op = "delete_conversation"
    /\ store_ret.result = PyBool(FALSE)
    /\ ConversationExists(store_ret.conversation_id)
    /\ conversations[store_ret.conversation_id].user_id # store_ret.user_id
    /\ MessagesOf(store_ret.conversation_id) # <<>>
    /\ get_messages(store_ret.conversation_id,
                    conversations[store_ret.conversation_id].user_id) # <<>>

\* a chat turn naming another user's conversation was answered 404
ForeignConversationRejected ==
    \E w \in Workers :
        /\ turn[w].status = 404
        /\ ConversationExists(turn[w].request_conversation_id)

\* the steps run_agent can take, as pairs of positions
TurnSteps ==
    { <<"persisted", "awaiting_model">>, <<"persisted", "returned">>,
      <<"awaiting_model", "returned">>, <<"awaiting_model", "tool_round">>,
      <<"tool_round", "in_tool">>, <<"tool_round", "returned">>,
      <<"in_tool", "tool_round">>, <<"in_tool", "awaiting_final">>,
      <<"awaiting_final", "returned">> }

ToolMessages(t) == SelectSeq(t.messages, LAMBDA m : m.role = "tool")

\* run_agent returned without having caught an exception, after a model call
Done(t) == t.pc = "returned" /\ t.caught = "" /\ t.model_calls > 0

\* C9 - turn state machine: a turn that passed the language gate goes
\* DRAFTING -> AWAITING_MODEL -> DONE with exactly one model call, the text of
\* that response as reply and an empty trail when no tool is requested, and
\* DRAFTING -> AWAITING_MODEL -> TOOL_ROUND -> AWAITING_MODEL -> DONE with
\* exactly two model calls when tools are requested and none raises; the second
\* call is made only after every requested tool was executed and its result
\* appended to the prompt, and its text is the reply.
TurnStateMachine ==
    /\ [](\A w \in Workers :
            LET t == turn[w]
            IN  /\ (Done(t) /\ t.requested = <<>>) =>
                        /\ t.model_calls = 1
                        /\ t.assistant_response = OrEmpty(t.response_content)
                        /\ t.tool_calls = <<>>
                /\ (Done(t) /\ t.requested # <<>>) =>
                        /\ t.model_calls = 2
                        /\ t.assistant_response = OrEmpty(t.final_content)
                        /\ Len(t.tool_calls) = Len(t.requested)
                /\ t.pc = "awaiting_final" =>
                        /\ t.model_calls = 1
                        /\ t.requested # <<>>
                        /\ Len(ToolMessages(t)) = Len(t.requested)
                        /\ t.messages =
                                BuildMessages(t.conversation_history, t.message)
                                \o ToolMessages(t))
    /\ [][\A w \in Workers :
            (/\ turn[w].pc \in AfterUserCommit
             /\ turn'[w].pc \notin {turn[w].pc, "crashed", "responded"})
                => (/\ <<turn[w].pc, turn'[w].pc>> \in TurnSteps
                    /\ turn'[w].model_calls =
                            IF turn[w].pc \in {"awaiting_model", "awaiting_final"}
                            THEN turn[w].model_calls + 1
                            ELSE turn[w].model_calls)]_vars

\* a turn with two executed tools is done after its second model call
TurnStateMachineWitness ==
    \E w \in Workers :
        /\ Done(turn[w])
        /\ Len(turn[w].tool_calls) = 2
        /\ turn[w].model_calls = 2
        /\ turn[w].response_content # turn[w].final_content

\* C10 - sequential, ordered tool execution: the tool calls of one response
\* are started one at a time in the order the model returned them, call i + 1
\* only after call i has returned, and the trail lists them in that order.
SequentialToolExecution ==
    /\ [](\A w \in Workers :
            LET t == turn[w]
                sent(j) == Validate(t.requested[j].name,
                                    InjectUser(t.requested[j].arguments.ret, t.user_id),
                                    t.message).ret
            IN  /\ \A j \in 1..Len(t.tool_calls) :
                        /\ t.tool_calls[j].tool = t.requested[j].name
                        /\ t.tool_calls[j].args = sent(j)
                /\ \A j \in 1..Len(ToolMessages(t)) : ToolMessages(t)[j].tool_call_id = j
                /\ t.pc \in {"tool_round", "in_tool"} =>
                        /\ t.i \in 1..Len(t.requested)
                        /\ Len(t.tool_calls) = t.i - 1
                        /\ Len(ToolMessages(t)) = t.i - 1
                /\ t.pc = "in_tool" => t.args = sent(t.i))
    /\ [][\A w \in Workers :
            /\ (turn[w].pc = "tool_round" /\ turn'[w].pc = "in_tool")
                    => turn'[w].i = turn[w].i
            /\ (turn[w].pc = "in_tool" /\ turn'[w].pc \in {"tool_round", "awaiting_final"})
                    => (/\ turn'[w].i = turn[w].i + 1
                        /\ Len(turn'[w].tool_calls) = turn[w].i)]_vars

\* three different tools were executed and the turn is done
SequentialToolExecutionWitness ==
    \E w \in Workers :
        /\ Done(turn[w])
        /\ Len(turn[w].tool_calls) = 3
        /\ turn[w].tool_calls[1].tool # turn[w].tool_calls[2].tool
        /\ turn[w].tool_calls[2].tool # turn[w].tool_calls[3].tool

\* a character of the Devanagari block, U+0900 to U+097F
HasDevanagari(s) == \E i \in 1..Len(s) : s[i] >= 2304 /\ s[i] <= 2431

\* C11 - language gate: a turn whose utterance contains a Devanagari
\* character, also mixed with supported text, returns the fixed apology and an
\* empty trail without any model call or tool execution; an utterance without
\* such a character passes the gate and reaches the first model call.
LanguageGate ==
    /\ [](\A w \in Workers :
            LET t == turn[w]
            IN  HasDevanagari(t.message) =>
                    /\ t.model_calls = 0
                    /\ t.requested = <<>>
                    /\ t.pc \notin {"awaiting_model", "tool_round", "in_tool", "awaiting_final"}
                    /\ t.pc = "returned" =>
                            /\ t.assistant_response = HindiNotSupported
                            /\ t.tool_calls = <<>>)
    /\ [][\A w \in Workers :
            (turn[w].pc = "persisted" /\ turn'[w].pc \notin {"persisted", "crashed"}) =>
                IF HasDevanagari(turn[w].message)
                THEN turn'[w].pc = "returned" /\ UNCHANGED tasks
                ELSE turn'[w].pc = "awaiting_model"]_vars

\* run_agent has returned the apology for an utterance that mixes Latin and
\* Devanagari characters
LanguageGateWitness ==
    \E w \in Workers :
        /\ turn[w].pc = "returned"
        /\ HasDevanagari(turn[w].message)
        /\ \E i \in 1..Len(turn[w].message) : turn[w].message[i] \in 97..122
        /\ turn[w].assistant_response = HindiNotSupported
        /\ turn[w].tool_calls = <<>>

\* an Urdu utterance has passed the gate
UrduPassesGate ==
    \E w \in Workers :
        /\ turn[w].pc = "awaiting_model"
        /\ \E i \in 1..Len(turn[w].message) : turn[w].message[i] \in UrduRange

\* C12 - unsupported-language turns are short-circuited before persistence:
\* a turn rejected by the language gate appends no message, neither the
\* utterance nor the apology.
RejectedTurnNotPersisted ==
    \A w \in Workers :
        HasDevanagari(turn[w].message) =>
            /\ turn[w].user_msg_id = 0
            /\ turn[w].assistant_msg_id = 0
            /\ \A k \in 1..Len(messages) :
                    messages[k].content \notin {PyStr(turn[w].message), HindiNotSupported}

\* the argument set the validator of the current tool call received
ValidatorInput(t) == DictSet(t.requested[t.i].arguments.ret, "user_id", PyStr(t.user_id))

\* the validator of the current call of tool name has returned t.args
Validated(t, name) ==
    /\ t.pc = "in_tool"
    /\ t.requested[t.i].name = name

\* the validator of the current call of tool name has raised
ValidatorRaised(t, name) ==
    /\ t.pc = "returned"
    /\ t.caught # ""
    /\ t.i = 1
    /\ Len(t.requested) = 1
    /\ t.requested[1].name = name

\* C13 - recurrence omission: the output of validate_add_task keeps
\* recurrence_pattern with its value when it is daily, weekly or monthly, and
\* has no such key when it is absent, null, empty or any other value.
RecurrenceOmission ==
    \A w \in Workers :
        Validated(turn[w], "add_task") =>
            LET a == ValidatorInput(turn[w])
                out == turn[w].args
            IN  IF /\ "recurrence_pattern" \in DOMAIN a
                   /\ a["recurrence_pattern"] \in
                        {PyStr(<<100, 97, 105, 108, 121>>),
                         PyStr(<<119, 101, 101, 107, 108, 121>>),
                         PyStr(<<109, 111, 110, 116, 104, 108, 121>>)}
                THEN /\ "recurrence_pattern" \in DOMAIN out
                     /\ out["recurrence_pattern"] = a["recurrence_pattern"]
                ELSE "recurrence_pattern" \notin DOMAIN out

\* the string "none" was given as recurrence_pattern and validation returned
RecurrenceOmissionWitness ==
    \E w \in Workers :
        /\ Validated(turn[w], "add_task")
        /\ "recurrence_pattern" \in DOMAIN ValidatorInput(turn[w])
        /\ ValidatorInput(turn[w])["recurrence_pattern"] = PyStr(<<110, 111, 110, 101>>)
        /\ "recurrence_pattern" \notin DOMAIN turn[w].args

\* the value of key in a is a non-empty input
Given(a, key) == key \in DOMAIN a /\ a[key] \notin {PyNone, PyStr(<<>>)}

\* C14 - description never null: the output of validate_add_task has a
\* description that is present, not null and not empty: the input's if
\* non-empty, else "Task: " and the stripped title, else the cleaned user text
\* capitalized, else the generic placeholder.
DescriptionNeverNull ==
    \A w \in Workers :
        Validated(turn[w], "add_task") =>
            LET a == ValidatorInput(turn[w])
                out == turn[w].args
                cleaned == Strip(RemoveKeywords(Lower(turn[w].message), 1))
            IN  /\ "description" \in DOMAIN out
                /\ out["description"] # PyNone
                /\ out["description"] # PyStr(<<>>)
                /\ out["description"] =
                        IF Given(a, "description") THEN a["description"]
                        ELSE IF Given(a, "title") /\ Strip(a["title"].s) # <<>>
                        THEN PyStr(<<84, 97, 115, 107, 58, 32>> \o Strip(a["title"].s))
                        ELSE IF cleaned # <<>> THEN PyStr(Capitalize(cleaned))
                        ELSE PyStr(<<84, 97, 115, 107, 32, 116, 111, 32, 98, 101, 32,
                                     99, 111, 109, 112, 108, 101, 116, 101, 100>>)

\* no description, a null title and a user text of command keywords only:
\* the placeholder was used
DescriptionNeverNullWitness ==
    \E w \in Workers :
        /\ Validated(turn[w], "add_task")
        /\ "description" \notin DOMAIN ValidatorInput(turn[w])
        /\ "title" \in DOMAIN ValidatorInput(turn[w])
        /\ ValidatorInput(turn[w])["title"] = PyNone
        /\ turn[w].message = MsgKeywords
        /\ Len(turn[w].args["description"].s) = 20

\* C15 - validate_add_task never raises: for every argument set and user
\* text it returns a sanitized argument set.
AddTaskNeverRaises ==
    \A w \in Workers : ~ValidatorRaised(turn[w], "add_task")

\* task_id is absent or null
NoTarget(a) == "task_id" \notin DOMAIN a \/ a["task_id"] = PyNone

\* C16 - validate_update_task raises exactly when task_id is absent or null
\* and returns a sanitized argument set for every other argument set.
UpdateRaisesOnlyWithoutTarget ==
    \A w \in Workers :
        /\ ValidatorRaised(turn[w], "update_task") => NoTarget(ValidatorInput(turn[w]))
        /\ Validated(turn[w], "update_task") => ~NoTarget(ValidatorInput(turn[w]))

\* C17 - update never carries untouched fields: an optional field that is
\* absent, null, an empty string or an empty list in the input is not a key of
\* the output of validate_update_task; task_id and user_id are retained.
UpdateOmitsEmptyFields ==
    \A w \in Workers :
        Validated(turn[w], "update_task") =>
            LET a == ValidatorInput(turn[w])
                out == turn[w].args
            IN  /\ \A f \in {"title", "description", "priority", "due_date", "tags"} :
                        (f \notin DOMAIN a \/ a[f] \in {PyNone, PyStr(<<>>), PyList(<<>>)})
                            => f \notin DOMAIN out
                /\ "task_id" \in DOMAIN out /\ out["task_id"] = a["task_id"]
                /\ "user_id" \in DOMAIN out /\ out["user_id"] = PyStr(turn[w].user_id)

\* an update with an empty title, an empty tag list and a priority
UpdateOmitsEmptyFieldsWitness ==
    \E w \in Workers :
        LET a == ValidatorInput(turn[w])
        IN  /\ Validated(turn[w], "update_task")
            /\ {"title", "tags", "priority"} \subseteq DOMAIN a
            /\ a["title"] = PyStr(<<>>)
            /\ a["tags"] = PyList(<<>>)
            /\ DOMAIN turn[w].args = {"task_id", "user_id", "priority"}

\* C18 - validate_update_task is idempotent: validating its output again
\* returns the same argument set.
UpdateIdempotent ==
    \A w \in Workers :
        Validated(turn[w], "update_task") =>
            validate_update_task(turn[w].args) = Ret(turn[w].args)

\* the arguments call j of the response is executed with: a function of the
\* model's arguments, the user and the utterance
Executed(t, j) ==
    Validate(t.requested[j].name, InjectUser(t.requested[j].arguments.ret, t.user_id),
             t.message).ret

\* C20 - intent never gates execution: which tools are executed, in which
\* order and with which arguments, and the reply, are determined by the
\* utterance, the history and the model's responses alone, whatever label and
\* score the classifier gave the turn; a requested call is started unless its
\* arguments fail to parse or to validate.
IntentNeverGates ==
    /\ [](\A w \in Workers :
            LET t == turn[w]
            IN  /\ t.intent \in IntentType \cup {""}
                /\ t.pc = "in_tool" => t.args = Executed(t, t.i)
                /\ Done(t) =>
                        /\ t.tool_calls =
                                [j \in 1..Len(t.requested) |->
                                    [tool |-> t.requested[j].name, args |-> Executed(t, j)]]
                        /\ t.assistant_response =
                                OrEmpty(IF t.requested = <<>> THEN t.response_content
                                        ELSE t.final_content))
    /\ [][\A w \in Workers :
            (turn[w].pc = "tool_round" /\ turn'[w].pc \notin {"tool_round", "crashed"}) =>
                LET t == turn[w]
                    parsed == t.requested[t.i].arguments
                IN  turn'[w].pc = "in_tool" <=>
                        /\ ~Raised(parsed)
                        /\ ~Raised(Validate(t.requested[t.i].name,
                                            InjectUser(parsed.ret, t.user_id), t.message))]_vars

\* a turn labelled DELETE_TASK has executed add_task and is done
IntentNeverGatesWitness ==
    \E w \in Workers :
        /\ Done(turn[w])
        /\ turn[w].intent = "DELETE_TASK"
        /\ Len(turn[w].tool_calls) = 1
        /\ turn[w].tool_calls[1].tool = "add_task"

\* a turn labelled UNCLEAR has executed three tools and is done
UnclearTurnRunsTools ==
    \E w \in Workers :
        /\ Done(turn[w])
        /\ turn[w].intent = "UNCLEAR"
        /\ turn[w].confidence = 60
        /\ Len(turn[w].tool_calls) = 3

\* every label is given to some turn
AllLabelsSeen(l) == \E w \in Workers : turn[w].intent = l

\* the prompt as a function of the persisted messages and the utterance
PromptOf(rows, utterance) == BuildMessages(RoleContent(rows), utterance)

\* C19 - restart-safety: the prompt of a turn is a function only of the
\* messages persisted for its conversation, as read by the turn, and of the new
\* utterance: whichever process serves the turn and whatever it served or lost
\* before, the history it uses is the stored one and the prompt is built from
\* it, so two turns that read the same stored messages and carry the same
\* utterance build the identical prompt.
RestartSafety ==
    /\ [][\A w \in DOMAIN turn :
            /\ (turn[w].pc = "have_conversation" /\ turn'[w].pc = "have_history") =>
                    turn'[w].conversation_history =
                        RoleContent(MessagesOf(turn[w].conversation_id))
            /\ (turn[w].pc \in {"have_history", "persisted"}
                /\ turn'[w].pc \in {"persisted", "awaiting_model"}) =>
                    turn'[w].conversation_history = turn[w].conversation_history
            /\ (turn[w].pc = "persisted" /\ turn'[w].pc = "awaiting_model") =>
                    \E k \in 0..Len(messages) :
                        turn'[w].messages =
                            PromptOf(SelectSeq(messages,
                                        LAMBDA r : /\ r.conversation_id = turn[w].conversation_id
                                                   /\ r.id \in 1..k
                                                   /\ r.id # turn[w].user_msg_id),
                                     turn[w].message)]_vars
    /\ [](\A p \in DOMAIN turn : \A q \in DOMAIN turn :
            (/\ turn[p].pc = "awaiting_model"
             /\ turn[q].pc = "awaiting_model"
             /\ turn[p].message = turn[q].message
             /\ turn[p].conversation_history = turn[q].conversation_history)
                => turn[p].messages = turn[q].messages)

\* a process builds a prompt that contains the message stored by another
\* process which died during its turn
RestartSafetyWitness ==
    \E w \in DOMAIN turn : \E v \in DOMAIN turn :
        /\ v # w
        /\ turn[v].pc = "crashed"
        /\ turn[v].user_msg_id # 0
        /\ turn[w].pc = "awaiting_model"
        /\ Len(turn[w].conversation_history) >= 2
        /\ Len(turn[w].messages) = Len(turn[w].conversation_history) + 2
        /\ \E k \in 1..Len(messages) :
                /\ messages[k].id = turn[v].user_msg_id
                /\ messages[k].id < turn[w].user_msg_id

\* classify has labelled the utterance of turn t
Classified(t) == t.pc = "awaiting_model"

\* the keyword families the lowered, stripped utterance of t matches
Families(t) ==
    LET text == Strip(Lower(t.message))
    IN  {l \in IntentType :
            \/ l = "ADD_TASK" /\ \/ _contains_keywords(text, ADD_TASK_KEYWORDS)
                                 \/ _contains_keywords(text, action_verbs)
            \/ l = "UPDATE_TASK" /\ _contains_keywords(text, UPDATE_TASK_KEYWORDS)
            \/ l = "DELETE_TASK" /\ _contains_keywords(text, DELETE_TASK_KEYWORDS)
            \/ l = "COMPLETE_TASK" /\ _contains_keywords(text, COMPLETE_TASK_KEYWORDS)
            \/ l = "SEARCH" /\ _contains_keywords(text, SEARCH_KEYWORDS)
            \/ l = "LIST_TASKS" /\ _contains_keywords(text, LIST_TASK_KEYWORDS)
            \/ l = "ANALYTICS" /\ _contains_keywords(text, AnalyticsKeywords)}

\* C21 - classifier priority: an utterance that matches an add-family
\* keyword and also an update, delete or complete keyword is labelled
\* UPDATE_TASK, DELETE_TASK or COMPLETE_TASK, one of the explicit families it
\* matches, and never ADD_TASK.
ClassifierPriority ==
    \A w \in Workers :
        LET t == turn[w]
            explicit == Families(t) \cap {"UPDATE_TASK", "DELETE_TASK", "COMPLETE_TASK"}
        IN  (/\ Classified(t)
             /\ _contains_keywords(Strip(Lower(t.message)), ADD_TASK_KEYWORDS)
             /\ explicit # {})
                => t.intent \in explicit

\* C28 - classify returns UNCLEAR exactly when the utterance matches none
\* of the keyword families; an utterance that matches at least one family gets
\* the label of a family it matches, and the label is one of the eight.
UnclearOnlyWithoutMatch ==
    \A w \in Workers :
        LET t == turn[w]
        IN  Classified(t) =>
                /\ t.intent \in IntentType
                /\ t.intent = "UNCLEAR" <=> Families(t) = {}
                /\ Families(t) # {} => t.intent \in Families(t)

\* C22 - updated_at is bumped on every append: a conversation's updated_at
\* is never earlier than the created_at of its newest message.
UpdatedAtCoversNewest ==
    \A c \in DOMAIN conversations :
        MessagesOf(c) # <<>> =>
            conversations[c].updated_at >= MessagesOf(c)[Len(MessagesOf(c))].created_at

\* the delete_thread call d commits in this step
DeletionSucceeds(d) ==
    /\ turn[d].pc = "selected"
    /\ turn'[d].pc = "idle"
    /\ turn'[d].result = PyBool(TRUE)

TaskOperations == {"list_tasks", "complete_task", "update_task", "set_priority", "add_tags"}

\* the ids of the tasks of tk that user_id (a Python string) does not own
TasksOfOthers(tk, user_id) == {id \in DOMAIN tk : PyStr(tk[id].user_id) # user_id}

\* the call of a task operation that worker w is executing returns in this step
TaskOperationReturns(w) ==
    /\ turn[w].pc = "in_tool"
    /\ turn'[w].pc # "in_tool"
    /\ turn[w].requested[turn[w].i].name \in TaskOperations

\* C24 - task isolation in the registry: an operation of TaskOperations
\* executed with user_id = u returns no task of another user and changes no
\* task of another user; when it names a task of another user and the
\* database answers, the result is not-found
TaskIsolation ==
    [][\A w \in Workers :
        TaskOperationReturns(w) =>
            LET t == turn[w]
                u == t.args["user_id"]
                name == t.requested[t.i].name
                text == turn'[w].messages[Len(turn'[w].messages)].content
            IN  /\ \A id \in TasksOfOthers(tasks, u) :
                        id \in DOMAIN tasks' /\ tasks'[id] = tasks[id]
                /\ text.id = "found" => text.detail \cap TasksOfOthers(tasks, u) = {}
                /\ ("task_id" \in DOMAIN t.args /\ t.args["task_id"].k = "int"
                        /\ t.args["task_id"].n \in TasksOfOthers(tasks, u))
                    => /\ text.id \in {"not_found", "error"}
                       /\ call_tool(name, t.args, "ok", tasks, next_id.tasks, now).text.id
                            = "not_found"]_vars

\* a call that named the other user's task was answered not-found, and the
\* task is as it was stored
TaskIsolationWitness ==
    \E w \in Workers :
        LET t == turn[w]
        IN  /\ t.pc \in {"tool_round", "awaiting_final"}
            /\ t.messages[Len(t.messages)].role = "tool"
            /\ t.messages[Len(t.messages)].content.id = "not_found"
            /\ t.messages[Len(t.messages)].content.detail.n \in DOMAIN tasks
            /\ tasks[t.messages[Len(t.messages)].content.detail.n].user_id # t.user_id
            /\ tasks[t.messages[Len(t.messages)].content.detail.n] = TaskRow(U2, Milk)
            /\ t.tool_calls[Len(t.tool_calls)].tool \in TaskOperations \ {"list_tasks"}

\* C25 - trail completeness: the trail a turn returns, and the one stored on
\* its assistant message, has one {tool, args} entry per call executed in the
\* turn, in order, with the arguments executed, also when a later validation
\* or the second model call failed
TrailComplete ==
    \A w \in Workers :
        LET t == turn[w]
        IN  t.pc \in {"returned", "responded"} =>
                /\ Len(t.tool_calls) = Len(ToolMessages(t))
                /\ \A j \in 1..Len(t.tool_calls) :
                        /\ t.tool_calls[j].tool = t.requested[j].name
                        /\ t.tool_calls[j].args = Executed(t, j)
                /\ (t.pc = "responded" /\ t.assistant_msg_id # 0) =>
                        \A k \in 1..Len(messages) :
                            messages[k].id = t.assistant_msg_id
                                => messages[k].tool_calls = PyList(t.tool_calls)

\* the validated tools
ValidatedTools == {"add_task", "update_task"}

\* what the validator of the current call gives for the model's arguments
\* with the turn's user put in
ValidatorOutput(t) ==
    IF t.requested[t.i].name = "add_task"
    THEN validate_add_task(ValidatorInput(t), t.message)
    ELSE validate_update_task(ValidatorInput(t))

NoNullReachesTool ==
    \A w \in Workers :
        LET t == turn[w]
        IN  (Validated(t, "add_task") \/ Validated(t, "update_task")) =>
                \A key \in DOMAIN t.args : ~IsNone(t.args[key])

\* C29 - full catalogue offered: the tool names passed to the model on the
\* first model call of a turn are the tool names the registry lists and
\* dispatches
FullCatalogueOffered ==
    \A w \in Workers :
        (turn[w].model_calls >= 1 /\ turn[w].pc # "crashed") => turn[w].tools = RegistryTools

\* the number of rows of a role that conversation c has
CountRole(c, role) ==
    Len(SelectSeq(messages, LAMBDA m : m.conversation_id = c /\ m.role = role))

\* worker w commits its user message, or its assistant message, in this step
StoresUserMessage(w) == turn[w].pc = "have_history" /\ turn'[w].pc = "persisted"
StoresAssistantMessage(w) == turn[w].pc = "returned" /\ turn'[w].pc = "responded"

\* C30 - one user message and one assistant message per turn: a turn that
\* passed the ownership check and was answered has appended to its
\* conversation one user message and, after it, one assistant message; rows
\* are appended one at a time, the user row by the step that commits the
\* utterance and the assistant row by the step that stores the outcome, and a
\* turn comes to each of these steps once; so no conversation has more
\* assistant messages than user messages, also while turns run concurrently
OneUserOneAssistantPerTurn ==
    /\ [](\A c \in DOMAIN conversations : CountRole(c, "assistant") <= CountRole(c, "user"))
    /\ [](\A w \in Servers :
            LET t == turn[w]
            IN  (t.pc = "responded" /\ t.status \notin {403, 404}) =>
                    \E j, k \in 1..Len(messages) :
                        /\ j < k
                        /\ messages[j] = MessageRow(t.user_msg_id, t.conversation_id, t.user_id,
                                                    "user", PyStr(t.message), PyNone,
                                                    messages[j].created_at)
                        /\ messages[k].id = t.assistant_msg_id
                        /\ messages[k].conversation_id = t.conversation_id
                        /\ messages[k].role = "assistant"
                        /\ messages[k].content = t.assistant_response)
    /\ [][/\ messages' # messages =>
                \E w \in Servers :
                    LET row == messages'[Len(messages')]
                    IN  /\ messages' = Append(messages, row)
                        /\ row.conversation_id = turn[w].conversation_id
                        /\ \/ /\ StoresUserMessage(w)
                              /\ row.role = "user"
                              /\ row.id = turn'[w].user_msg_id
                           \/ /\ StoresAssistantMessage(w)
                              /\ row.role = "assistant"
                              /\ row.id = turn'[w].assistant_msg_id
          /\ \A w \in Servers :
                /\ StoresUserMessage(w) =>
                        /\ turn[w].user_msg_id = 0 /\ turn[w].assistant_msg_id = 0
                        /\ Len(messages') = Len(messages) + 1
                /\ StoresAssistantMessage(w) =>
                        /\ turn[w].user_msg_id # 0 /\ turn[w].assistant_msg_id = 0
                        /\ Len(messages') = Len(messages) + 1]_vars

\* two turns ran concurrently on one conversation and both were answered:
\* the rows are user, user, assistant, assistant
OneUserOneAssistantPerTurnWitness ==
    \E w, v \in Servers :
        /\ w # v
        /\ turn[w].pc = "responded" /\ turn[w].status = 200
        /\ turn[v].pc = "responded" /\ turn[v].status = 200
        /\ turn[w].conversation_id = turn[v].conversation_id
        /\ turn[w].user_msg_id < turn[v].user_msg_id
        /\ turn[v].user_msg_id < turn[w].assistant_msg_id
        /\ CountRole(turn[w].conversation_id, "assistant") = 2
        /\ CountRole(turn[w].conversation_id, "user") = 2

====
